---- MODULE Spec2Model ----
(***************************************************************************)
(* Model of the simulated low-bit quantization of                          *)
(* tender/models/modeling_llama_tender_eval.py: the symmetric              *)
(* quantize/dequantize primitive (sym_quant, sym_dequant), the chunked     *)
(* magnitude-decomposition quantizer of LmHeadTender.forward and of the    *)
(* query and score paths of LlamaAttention_Tender_Eval.forward.            *)
(*                                                                         *)
(* Numbers.  A tensor element is an exact rational <<n, d>> (d > 0, lowest *)
(* terms) measured in units of 1e-9, the clamp minimum of sym_quant, so    *)
(* that the constant 1e-9 of the code is the rational 1.  Floating-point   *)
(* rounding of the individual operations is not modelled; torch.round      *)
(* (ties to even), the clamps, the comparisons, abs, max and min are.      *)
(***************************************************************************)
EXTENDS Integers, Sequences, FiniteSets, TLC

(***************************************************************************)
(* Rational arithmetic (the float32 values of the tensors).                *)
(***************************************************************************)
RECURSIVE GCD(_, _)
GCD(a, b) ==
    IF b = 0 THEN a ELSE GCD(b, a % b)

AbsInt(n) ==
    IF n < 0 THEN -n ELSE n

Rat(n, d) ==
    LET s == IF d < 0 THEN -1 ELSE 1
        g == GCD(AbsInt(n), AbsInt(d))
    IN  <<(s * n) \div g, (s * d) \div g>>

Zero ==
    <<0, 1>>

RInt(n) ==
    <<n, 1>>

RAdd(a, b) ==
    Rat(a[1] * b[2] + b[1] * a[2], a[2] * b[2])

RSub(a, b) ==
    Rat(a[1] * b[2] - b[1] * a[2], a[2] * b[2])

RMul(a, b) ==
    Rat(a[1] * b[1], a[2] * b[2])

\* true division a / b, b # 0
RDiv(a, b) ==
    Rat(a[1] * b[2], a[2] * b[1])

RAbs(a) ==
    <<AbsInt(a[1]), a[2]>>

RLe(a, b) ==
    a[1] * b[2] <= b[1] * a[2]

RLt(a, b) ==
    a[1] * b[2] < b[1] * a[2]

RMax(a, b) ==
    IF RLe(a, b) THEN b ELSE a

RMin(a, b) ==
    IF RLe(a, b) THEN a ELSE b

\* 2 ** k for k >= 0
RECURSIVE Pow2(_)
Pow2(k) ==
    IF k = 0 THEN 1 ELSE 2 * Pow2(k - 1)


\* a faulty rounding: truncation towards minus infinity
RoundFloor(a) ==
    a[1] \div a[2]

\* torch.round: round to the nearest integer, ties to the even integer
RoundHalfEven(a) ==
    LET f == a[1] \div a[2]
        r == a[1] % a[2]
    IN  IF 2 * r < a[2] THEN f
        ELSE IF 2 * r > a[2] THEN f + 1
        ELSE IF f % 2 = 0 THEN f ELSE f + 1

\* a with its magnitude scaled by powers of two into [2^(bits-1), 2^bits), and the
\* exponent: <<scaled, e>> with |a| = scaled * 2^e
RECURSIVE Normalize(_, _, _)
Normalize(a, e, bits) ==
    IF RLe(RInt(Pow2(bits)), a) THEN Normalize(RDiv(a, RInt(2)), e + 1, bits)
    ELSE IF RLt(a, RInt(Pow2(bits - 1))) THEN Normalize(RMul(a, RInt(2)), e - 1, bits)
    ELSE <<a, e>>

\* a faulty conversion: the significand truncated instead of rounded
ToDtypeTruncate(r, bits) ==
    IF bits = 0 \/ r = Zero THEN r
    ELSE LET ne == Normalize(RAbs(r), 0, bits)
             m == RInt(ne[1][1] \div ne[1][2])
             v == IF ne[2] >= 0 THEN RMul(m, RInt(Pow2(ne[2])))
                                ELSE RDiv(m, RInt(Pow2(-ne[2])))
         IN  IF RLt(r, Zero) THEN RSub(Zero, v) ELSE v

\* Tensor.to(dtype) and every operation whose result has the tensor's dtype: the
\* value rounded to the nearest one of `bits` significant binary digits, ties to
\* even (the exponent range is not limited); bits = 0 stands for exact arithmetic
ToDtype(r, bits) ==
    IF bits = 0 \/ r = Zero THEN r
    ELSE LET ne == Normalize(RAbs(r), 0, bits)
             m == RInt(RoundHalfEven(ne[1]))
             v == IF ne[2] >= 0 THEN RMul(m, RInt(Pow2(ne[2])))
                                ELSE RDiv(m, RInt(Pow2(-ne[2])))
         IN  IF RLt(r, Zero) THEN RSub(Zero, v) ELSE v

\* a faulty clamp: the upper bound one too low
ClampIntTight(q, lo, hi) ==
    IF q < lo THEN lo ELSE IF q > hi - 1 THEN hi - 1 ELSE q

\* Tensor.clamp(min = lo, max = hi) on an integer-valued element
ClampInt(q, lo, hi) ==
    IF q < lo THEN lo ELSE IF q > hi THEN hi ELSE q

\* maximum of a non-empty sequence of rationals (torch.max over one dim)
RECURSIVE SeqMax(_)
SeqMax(s) ==
    IF Len(s) = 1 THEN s[1] ELSE RMax(s[1], SeqMax(Tail(s)))

RECURSIVE SeqMin(_)
SeqMin(s) ==
    IF Len(s) = 1 THEN s[1] ELSE RMin(s[1], SeqMin(Tail(s)))

RECURSIVE SeqSumInt(_)
SeqSumInt(s) ==
    IF Len(s) = 0 THEN 0 ELSE s[1] + SeqSumInt(Tail(s))

(***************************************************************************)
(* The symmetric quantize / dequantize primitive.                          *)
(***************************************************************************)
\* the clamp minimum 1e-9 of sym_quant, in units of 1e-9
MinScale ==
    RInt(1)


\* a faulty assertion: assert torch.any(scale != 0.0)
ScaleAssertAnyNonZero(scale) ==
    \E i \in DOMAIN scale : scale[i] # Zero

\* assert torch.sum(scale == 0.0).item() == 0.0: TRUE iff the assertion passes
ScaleAssertOk(scale) ==
    \A i \in DOMAIN scale : scale[i][1] # 0


\* a faulty clamp: scale.abs() without the minimum
ClampScaleAbsOnly(s) ==
    RAbs(s)

\* scale = torch.clamp(scale.abs(), min = 1e-9), one element
ClampScale(s) ==
    RMax(RAbs(s), MinScale)

\* q_max = 2 ** (q_bits - 1) - 1
QMax(q_bits) ==
    Pow2(q_bits - 1) - 1

\* torch.round(fp / scale).clamp(min = -(q_max + 1), max = q_max), one element,
\* scale already asserted non-zero
sym_quant_elem(x, s, q_bits) ==
    ClampInt(RoundHalfEven(RDiv(x, ClampScale(s))), -(QMax(q_bits) + 1), QMax(q_bits))

\* q_int * scale, one element
sym_dequant_elem(q, s) ==
    RMul(RInt(q), s)

\* sym_quant on a column tensor fp[i] with a per-row scale[i]
sym_quant(fp, scale, q_bits) ==
    [i \in DOMAIN fp |-> sym_quant_elem(fp[i], scale[i], q_bits)]

sym_dequant(q_int, scale) ==
    [i \in DOMAIN q_int |-> sym_dequant_elem(q_int[i], scale[i])]

\* the elements of the tensor fp is divided by in torch.round(fp / scale)
SymQuantDivisors(scale) ==
    {ClampScale(scale[i]) : i \in DOMAIN scale}


(***************************************************************************)
(* The chunked magnitude-decomposition quantizer: the operators shared by  *)
(* LmHeadTender.forward and LlamaAttention_Tender_Eval.forward.            *)
(* A 2-D tensor is a sequence of rows, a row a sequence of elements; a     *)
(* chunked tensor hc is indexed hc[chunk][row][channel].                   *)
(***************************************************************************)

\* a faulty chunk count: int(tgt_len / chunk_size) + 1
FloorDivPlusOne(n, k) ==
    (n \div k) + 1

\* chunks = int(math.ceil(tgt_len / chunk_size))
CeilDiv(n, k) ==
    (n + k - 1) \div k

ZeroRow(dim) ==
    [ch \in 1..dim |-> Zero]

\* a faulty padding: rows of ones instead of rows of zeros
PadRowsOnes(t, pad_num, dim) ==
    IF pad_num > 0 THEN t \o [r \in 1..pad_num |-> [ch \in 1..dim |-> RInt(1)]] ELSE t

\* torch.cat((hidden_states, torch.zeros((pad_num, dim))), dim = 0) when pad_num > 0
PadRows(t, pad_num, dim) ==
    IF pad_num > 0 THEN t \o [r \in 1..pad_num |-> ZeroRow(dim)] ELSE t

\* hidden_chunks.reshape(chunks, chunk_size, dim)
ToChunks(t, chunks, chunk_size) ==
    [c \in 1..chunks |-> [r \in 1..chunk_size |-> t[(c - 1) * chunk_size + r]]]

\* reshape(padded_rows, -1)
FromChunks(hc, chunks, chunk_size) ==
    [k \in 1..(chunks * chunk_size) |->
        hc[((k - 1) \div chunk_size) + 1][((k - 1) % chunk_size) + 1]]

\* torch.zeros_like(hidden_chunks)
ZerosLike(hc) ==
    [c \in DOMAIN hc |-> [r \in DOMAIN hc[c] |-> [ch \in DOMAIN hc[c][r] |-> Zero]]]

\* torch.max(torch.abs(row)) of one row
RowAbsMax(row) ==
    SeqMax([ch \in DOMAIN row |-> RAbs(row[ch])])

\* torch.max(torch.max(torch.abs(hidden_chunks), dim=-1)[0], dim=-1)[0], per chunk
ChunkTensorMax(hc) ==
    [c \in DOMAIN hc |-> SeqMax([r \in DOMAIN hc[c] |-> RowAbsMax(hc[c][r])])]


\* faulty thresholds: floor division tmax // (2 ** (decomp_factor - 1 - i))
ThresholdsFloorDiv(tmax, decomp_factor) ==
    [k \in 1..decomp_factor |->
        [c \in DOMAIN tmax |->
            RInt((tmax[c][1] \div tmax[c][2]) \div Pow2(decomp_factor - k))]]

\* thresholds[i] = tmax / (2 ** (decomp_factor - 1 - i)), i = 0 .. decomp_factor - 1,
\* kept as thresholds[i + 1][chunk]
Thresholds(tmax, decomp_factor) ==
    [k \in 1..decomp_factor |->
        [c \in DOMAIN tmax |-> RDiv(tmax[c], RInt(Pow2(decomp_factor - k)))]]

\* torch.max(torch.abs(hidden_chunks), dim = -2)[0]: per chunk, per channel
ChunkChannelMax(hc, dim) ==
    [c \in DOMAIN hc |->
        [ch \in 1..dim |-> SeqMax([r \in DOMAIN hc[c] |-> RAbs(hc[c][r][ch])])]]


\* a faulty closed-top policy: band 0 excludes its upper bound
MaskClosedTopStrict(i, decomp_factor, cmax, thresholds, c) ==
    IF i = 0 THEN RLt(cmax, thresholds[1][c])
    ELSE IF i = decomp_factor - 1 THEN RLt(thresholds[i][c], cmax)
    ELSE RLt(thresholds[i][c], cmax) /\ RLe(cmax, thresholds[i + 1][c])

\* the mask of band i (0-based) for one (chunk, channel) entry: the closed-top
\* policy of the LM head and the score path
MaskClosedTop(i, decomp_factor, cmax, thresholds, c) ==
    IF i = 0 THEN RLe(cmax, thresholds[1][c])
    ELSE IF i = decomp_factor - 1 THEN RLt(thresholds[i][c], cmax)
    ELSE RLt(thresholds[i][c], cmax) /\ RLe(cmax, thresholds[i + 1][c])

\* the inclusive policy of the query path
MaskInclusive(i, decomp_factor, cmax, thresholds, c) ==
    IF i = 0 THEN RLe(cmax, thresholds[1][c])
    ELSE RLt(thresholds[i][c], cmax) /\ RLe(cmax, thresholds[i + 1][c])

\* the mask tensor of band i, mask[chunk][channel]
BandMask(policy, i, decomp_factor, cmax, thresholds) ==
    [c \in DOMAIN cmax |->
        [ch \in DOMAIN cmax[c] |->
            IF policy = "closed_top"
                THEN MaskClosedTop(i, decomp_factor, cmax[c][ch], thresholds, c)
                ELSE MaskInclusive(i, decomp_factor, cmax[c][ch], thresholds, c)]]

\* a faulty count: only the first chunk's entries, torch.sum(mask[0]).item()
MaskCountFirstChunk(mask) ==
    IF Len(mask) = 0 THEN 0
    ELSE Cardinality({ch \in DOMAIN mask[1] : mask[1][ch]})

\* torch.sum(mask).item()
MaskCount(mask) ==
    SeqSumInt([c \in DOMAIN mask |->
        Cardinality({ch \in DOMAIN mask[c] : mask[c][ch]})])

\* a faulty band scale: thresholds[i] / (q_max + 1)
BandScalePow2(thresholds, i, q_max) ==
    [c \in DOMAIN thresholds[i + 1] |-> RDiv(thresholds[i + 1][c], RInt(q_max + 1))]

\* scale = thresholds[i].unsqueeze(-1) / q_max, per chunk
BandScale(thresholds, i, q_max) ==
    [c \in DOMAIN thresholds[i + 1] |-> RDiv(thresholds[i + 1][c], RInt(q_max))]

\* torch.where(mask.unsqueeze(1).repeat(1, chunk_size, 1), hidden_chunks, zero)
MaskedChunks(mask, hc) ==
    [c \in DOMAIN hc |-> [r \in DOMAIN hc[c] |-> [ch \in DOMAIN hc[c][r] |->
        IF mask[c][ch] THEN hc[c][r][ch] ELSE Zero]]]

\* sym_dequant(sym_quant(decomp_fp, scale, q_bits), scale, dtype) with a per-chunk
\* scale, the scale asserted non-zero before
QuantDequantChunks(fp, scale, q_bits) ==
    [c \in DOMAIN fp |-> [r \in DOMAIN fp[c] |-> [ch \in DOMAIN fp[c][r] |->
        sym_dequant_elem(sym_quant_elem(fp[c][r][ch], scale[c], q_bits), scale[c])]]]

\* result += t
AddChunks(result, t) ==
    [c \in DOMAIN result |-> [r \in DOMAIN result[c] |-> [ch \in DOMAIN result[c][r] |->
        RAdd(result[c][r][ch], t[c][r][ch])]]]

\* every element of a chunked tensor converted to the dtype
DtypeChunks(t, bits) ==
    [c \in DOMAIN t |-> [r \in DOMAIN t[c] |-> [ch \in DOMAIN t[c][r] |->
        ToDtype(t[c][r][ch], bits)]]]

RECURSIVE SeqSumRat(_)
SeqSumRat(s) ==
    IF Len(s) = 0 THEN Zero ELSE RAdd(s[1], SeqSumRat(Tail(s)))

\* torch.matmul(a, b) for 2-D a (rows x k) and b (k x cols)
MatMul(a, b, cols) ==
    [r \in DOMAIN a |-> [v \in 1..cols |->
        SeqSumRat([k \in DOMAIN a[r] |-> RMul(a[r][k], b[k][v])])]]

\* t.transpose(-1, -2) of a rows x cols tensor
Transpose(t, cols) ==
    [j \in 1..cols |-> [i \in DOMAIN t |-> t[i][j]]]


\* a faulty trim: t[-n:], the last n rows
LastRows(t, n) ==
    [r \in 1..n |-> t[Len(t) - n + r]]

\* t[:n]
FirstRows(t, n) ==
    [r \in 1..n |-> t[r]]

(***************************************************************************)
(* State.                                                                  *)
(***************************************************************************)
VARIABLES
    p_pc,       \* primitive: position of the quantize/dequantize round trip
    p_fp,       \* primitive: the tensor given to sym_quant
    p_scale,    \* primitive: the scale tensor
    p_bits,     \* primitive: q_bits
    p_q,        \* primitive: q_int returned by sym_quant
    p_out,      \* primitive: the tensor returned by sym_dequant
    p_x0,       \* primitive: the tensor given to the first sym_quant
    p_first,    \* primitive: the result of the first round trip
    p_pass,     \* primitive: number of completed round trips
    lm_pc,              \* LM head: position in LmHeadTender.forward
    lm_hidden_states,   \* LM head: hidden_states after view(tgt_len * bsz, hidden_dim)
    lm_bsz,             \* LM head: bsz
    lm_orig_tgt_len,    \* LM head: orig_tgt_len
    lm_weight,          \* LM head: lm_weight (vocab x hidden_dim)
    lm_chunk_size,      \* LM head: self.chunk_size
    lm_decomp_factor,   \* LM head: self.decomp_factor
    lm_Wl,              \* LM head: Wl (hidden_dim x vocab)
    lm_chunks,          \* LM head: chunks
    lm_pad_num,         \* LM head: pad_num
    lm_hidden_chunks,   \* LM head: hidden_chunks
    lm_result,          \* LM head: result
    lm_tmax,            \* LM head: h_tmax
    lm_thresholds,      \* LM head: thresholds
    lm_cmax,            \* LM head: h_cmax
    lm_count,           \* LM head: count
    lm_i,               \* LM head: the band loop's i
    lm_logits,          \* LM head: logits (flattened to rows x vocab)
    at_pc,              \* attention: position in LlamaAttention_Tender_Eval.forward
    at_self,            \* attention: the module's fields (configuration, calibration, *_cal)
    at_in,              \* attention: the call's inputs (shapes, query/key/value states)
    at_k_ch_bias,       \* attention: k_ch_bias
    at_K,               \* attention: K, quantized and dequantized (before the transpose)
    at_chunks,          \* attention: chunks
    at_pad_num,         \* attention: pad_num
    at_hidden_chunks,   \* attention: hidden_chunks[b*h][chunk][row][channel]
    at_q_ch_bias,       \* attention: q_ch_bias
    at_o_ch_bias,       \* attention: o1_ch_bias, o2_ch_bias, o3_ch_bias
    at_q_tmax,          \* attention: q_tmax
    at_q_cmax,          \* attention: q_cmax
    at_s_tmax,          \* attention: s_tmax
    at_s_cmax,          \* attention: s_cmax
    at_thresholds,      \* attention: thresholds[b*h][i + 1][chunk]
    at_count,           \* attention: count
    at_i,               \* attention: the band loop's i
    at_result,          \* attention: result
    at_attn_weights,    \* attention: attn_weights[b*h][row][column]
    at_V,               \* attention: V
    at_attn_output,     \* attention: attn_output[b*h][row][channel]
    divisors,           \* every scale a tensor has been divided by while quantizing
    lm_pass,            \* LM head, applied again: number of reapplications started
    lm_first,           \* LM head, applied again: what the first application computed
    lm_dtype_bits,      \* LM head: significant bits of the tensors' dtype (0: exact)
    at_k_scale,         \* attention: scale of the keys (b*h, src_len, 1)
    at_v_scale,         \* attention: scale of the values (b*h, 1, head_dim)
    at_scores,          \* attention: attn_weights as given to the softmax
    at_calls,           \* attention: the forward calls completed on this module
    at_supplied,        \* attention: the calibration fields as the caller assigned them
    rk_pc,              \* repeat_kv: position
    rk_hidden_states,   \* repeat_kv: hidden_states[batch][head][position]
    rk_n_rep,           \* repeat_kv: n_rep
    rk_out,             \* repeat_kv: the returned tensor
    kv_pc,              \* decoding: position in LlamaModel.forward and its caller
    kv_config,          \* decoding: num_hidden_layers and use_cache
    kv_past_key_values, \* decoding: past_key_values given to LlamaModel.forward
    kv_input,           \* decoding: the tokens of this step
    kv_idx,             \* decoding: idx of the decoder layer loop
    kv_key_states,      \* decoding: key_states/value_states of each layer after the concatenation
    kv_next_decoder_cache,  \* decoding: next_decoder_cache
    kv_seen,            \* decoding: the tokens given to the model so far, cached ones included
    kv_steps,           \* decoding: number of LlamaModel.forward calls started
    qb_pc,              \* query bias: position
    qb_in,              \* query bias: the query rows, chunk_size and the dtype's bits
    qb_hidden_chunks,   \* query bias: hidden_chunks before the subtraction
    qb_q_ch_bias,       \* query bias: q_ch_bias
    qb_out,             \* query bias: hidden_chunks after hidden_chunks -= q_ch_bias
    dr_pc,              \* driver script: position
    dr_idx,             \* driver script: idx of the loop over the configurations
    dr_w,               \* driver script: position in EVAL_WORKLOAD_LIST
    dr_cmds,            \* driver script: the commands given to os.system so far
    dr_status,          \* driver script: what the last os.system call returned
    dr_need_scaling,    \* driver script: NEED_SCALING
    ro_pc,              \* rotary embedding: position
    ro_self,            \* rotary embedding: the module's fields
    ro_seq_lens,        \* rotary embedding: seq_len of the forward calls made
    ro_out,             \* rotary embedding: what the last forward call returned
    ro_rebuilt,         \* rotary embedding: calls of _set_cos_sin_cache by forward
    bp_pc,              \* band policies: position
    bp_in,              \* band policies: decomp_factor, tmax and cmax of one channel
    bp_thresholds,      \* band policies: thresholds
    bp_bands            \* band policies: the bands whose mask selects the channel

p_vars ==
    <<p_pc, p_fp, p_scale, p_bits, p_q, p_out, p_x0, p_first, p_pass>>

lm_in_vars ==
    <<lm_hidden_states, lm_bsz, lm_orig_tgt_len, lm_weight, lm_chunk_size, lm_decomp_factor>>

lm_chunk_vars ==
    <<lm_chunks, lm_pad_num, lm_hidden_chunks>>

lm_stat_vars ==
    <<lm_tmax, lm_thresholds, lm_cmax>>

lm_vars ==
    <<lm_pc, lm_in_vars, lm_Wl, lm_chunk_vars, lm_result, lm_stat_vars, lm_count, lm_i,
      lm_logits>>

at_key_vars ==
    <<at_k_ch_bias, at_K>>

at_chunk_vars ==
    <<at_chunks, at_pad_num, at_hidden_chunks>>

at_q_vars ==
    <<at_q_ch_bias, at_o_ch_bias, at_q_tmax, at_q_cmax>>

at_s_vars ==
    <<at_s_tmax, at_s_cmax, at_V>>

at_loop_vars ==
    <<at_thresholds, at_count, at_i, at_result>>

at_vars ==
    <<at_pc, at_self, at_in, at_key_vars, at_chunk_vars, at_q_vars, at_s_vars, at_loop_vars,
      at_attn_weights, at_attn_output>>

lm_again_vars ==
    <<lm_pass, lm_first, lm_dtype_bits>>

at_local_vars ==
    <<at_k_scale, at_v_scale, at_scores>>

at_call_vars ==
    <<at_calls, at_supplied>>

rk_vars ==
    <<rk_pc, rk_hidden_states, rk_n_rep, rk_out>>

kv_vars ==
    <<kv_pc, kv_config, kv_past_key_values, kv_input, kv_idx, kv_key_states,
      kv_next_decoder_cache, kv_seen, kv_steps>>

qb_vars ==
    <<qb_pc, qb_in, qb_hidden_chunks, qb_q_ch_bias, qb_out>>

dr_vars ==
    <<dr_pc, dr_idx, dr_w, dr_cmds, dr_status, dr_need_scaling>>

ro_vars ==
    <<ro_pc, ro_self, ro_seq_lens, ro_out, ro_rebuilt>>

\* the state of the query bias computation, of the driver script and of a
\* rotary embedding module on their own
bp_vars ==
    <<bp_pc, bp_in, bp_thresholds, bp_bands>>

y_vars ==
    <<qb_vars, dr_vars, ro_vars, bp_vars>>

\* what a call of LmHeadTender.forward leaves alone out of x_vars
x_but_lm ==
    <<at_local_vars, at_call_vars, rk_vars, kv_vars, y_vars>>

\* what a step of the attention forward leaves alone out of x_vars
x_but_at ==
    <<lm_again_vars, at_call_vars, rk_vars, kv_vars, y_vars>>

\* the state of the callers, of repeat_kv and of the decoding loop
x_vars ==
    <<lm_again_vars, at_local_vars, at_call_vars, rk_vars, kv_vars, y_vars>>

vars ==
    <<p_vars, lm_vars, at_vars, divisors, x_vars>>

\* largest |numerator| of the halves drawn as primitive inputs
MaxHalves ==
    8

\* largest q_bits drawn for the primitive
MaxBits ==
    3

PrimLen ==
    {1, 2}

PrimValues ==
    {Rat(n, 2) : n \in -MaxHalves..MaxHalves}

PrimScales ==
    {Rat(-1, 1), Zero, Rat(1, 2), RInt(1), RInt(2)}

LmAgainIdle ==
    /\ lm_pass = 0
    /\ lm_first = <<>>
    /\ lm_dtype_bits = 0

AtLocalIdle ==
    /\ at_k_scale = <<>>
    /\ at_v_scale = <<>>
    /\ at_scores = <<>>

AtCallIdle ==
    /\ at_calls = <<>>
    /\ at_supplied = <<>>

RkIdle ==
    /\ rk_pc = "idle"
    /\ rk_hidden_states = <<>>
    /\ rk_n_rep = 0
    /\ rk_out = <<>>

KvIdle ==
    /\ kv_pc = "idle"
    /\ kv_config = <<>>
    /\ kv_past_key_values = <<>>
    /\ kv_input = <<>>
    /\ kv_idx = 0
    /\ kv_key_states = <<>>
    /\ kv_next_decoder_cache = <<>>
    /\ kv_seen = <<>>
    /\ kv_steps = 0

QbIdle ==
    /\ qb_pc = "idle"
    /\ qb_in = <<>>
    /\ qb_hidden_chunks = <<>>
    /\ qb_q_ch_bias = <<>>
    /\ qb_out = <<>>

DrIdle ==
    /\ dr_pc = "idle"
    /\ dr_idx = 0
    /\ dr_w = 0
    /\ dr_cmds = <<>>
    /\ dr_status = 0
    /\ dr_need_scaling = FALSE

RoIdle ==
    /\ ro_pc = "idle"
    /\ ro_self = <<>>
    /\ ro_seq_lens = <<>>
    /\ ro_out = <<>>
    /\ ro_rebuilt = 0

BpIdle ==
    /\ bp_pc = "idle"
    /\ bp_in = <<>>
    /\ bp_thresholds = <<>>
    /\ bp_bands = <<>>

YIdle ==
    /\ QbIdle
    /\ DrIdle
    /\ RoIdle
    /\ BpIdle

XIdleButLm ==
    /\ AtLocalIdle
    /\ AtCallIdle
    /\ RkIdle
    /\ KvIdle
    /\ YIdle

\* no caller has called anything again; repeat_kv and the decoding loop are idle
XIdle ==
    /\ LmAgainIdle
    /\ XIdleButLm

AtIdle ==
    /\ at_pc = "idle"
    /\ at_self = <<>>
    /\ at_in = <<>>
    /\ at_k_ch_bias = <<>>
    /\ at_K = <<>>
    /\ at_chunks = -1
    /\ at_pad_num = -1
    /\ at_hidden_chunks = <<>>
    /\ at_q_ch_bias = <<>>
    /\ at_o_ch_bias = <<>>
    /\ at_q_tmax = <<>>
    /\ at_q_cmax = <<>>
    /\ at_s_tmax = <<>>
    /\ at_s_cmax = <<>>
    /\ at_thresholds = <<>>
    /\ at_count = <<>>
    /\ at_i = 0
    /\ at_result = <<>>
    /\ at_attn_weights = <<>>
    /\ at_V = <<>>
    /\ at_attn_output = <<>>

PrimIdle ==
    /\ p_pc = "idle"
    /\ p_fp = <<>>
    /\ p_scale = <<>>
    /\ p_bits = 0
    /\ p_q = <<>>
    /\ p_out = <<>>
    /\ p_x0 = <<>>
    /\ p_first = <<>>
    /\ p_pass = 0

LmIdle ==
    /\ lm_pc = "idle"
    /\ lm_hidden_states = <<>>
    /\ lm_bsz = 0
    /\ lm_orig_tgt_len = 0
    /\ lm_weight = <<>>
    /\ lm_chunk_size = 0
    /\ lm_decomp_factor = 0
    /\ lm_Wl = <<>>
    /\ lm_chunks = -1
    /\ lm_pad_num = -1
    /\ lm_hidden_chunks = <<>>
    /\ lm_result = <<>>
    /\ lm_tmax = <<>>
    /\ lm_thresholds = <<>>
    /\ lm_cmax = <<>>
    /\ lm_count = <<>>
    /\ lm_i = 0
    /\ lm_logits = <<>>

InitPrim ==
    /\ XIdle
    /\ LmIdle
    /\ AtIdle
    /\ divisors = {}
    /\ p_pc = "start"
    /\ \E n \in PrimLen :
          /\ p_fp \in [1..n -> PrimValues]
          /\ p_scale \in [1..n -> PrimScales]
    /\ p_bits \in 1..MaxBits
    /\ p_q = <<>>
    /\ p_out = <<>>
    /\ p_x0 = p_fp
    /\ p_first = <<>>
    /\ p_pass = 0

\* sym_quant(fp, scale, q_bits): the assertion, then the quantization
SymQuant ==
    /\ p_pc = "start"
    /\ IF ScaleAssertOk(p_scale)
          THEN /\ p_q' = sym_quant(p_fp, p_scale, p_bits)
               /\ divisors' = divisors \cup SymQuantDivisors(p_scale)
               /\ p_pc' = "quantized"
          ELSE /\ p_q' = <<>>
               /\ p_pc' = "zero_scale_assert"
               /\ UNCHANGED divisors
    /\ UNCHANGED <<p_fp, p_scale, p_bits, p_out, p_x0, p_first, p_pass>>
    /\ UNCHANGED <<x_vars, lm_vars, at_vars>>

\* sym_dequant(q_int, scale, dtype)
SymDequant ==
    /\ p_pc = "quantized"
    /\ p_out' = sym_dequant(p_q, p_scale)
    /\ p_pass' = p_pass + 1
    /\ p_first' = IF p_pass = 0 THEN sym_dequant(p_q, p_scale) ELSE p_first
    /\ p_pc' = "dequantized"
    /\ UNCHANGED <<p_fp, p_scale, p_bits, p_q, p_x0>>
    /\ UNCHANGED <<x_vars, lm_vars, at_vars, divisors>>

\* the result of a round trip given to sym_quant again, same scale and bits
Requantize ==
    /\ p_pc = "dequantized"
    /\ p_pass = 1
    /\ p_fp' = p_out
    /\ p_pc' = "start"
    /\ UNCHANGED <<p_scale, p_bits, p_q, p_out, p_x0, p_first, p_pass>>
    /\ UNCHANGED <<x_vars, lm_vars, at_vars, divisors>>

NextPrim ==
    \/ SymQuant
    \/ SymDequant
    \/ Requantize

SpecPrim ==
    InitPrim /\ [][NextPrim]_vars

(***************************************************************************)
(* LmHeadTender.forward.                                                   *)
(***************************************************************************)
\* self.q_bits of LmHeadTender
LmQBits ==
    4

\* largest number of rows (bsz * tgt_len) drawn for a decomposition input
MaxRows ==
    3

\* largest chunk_size drawn
MaxChunkSize ==
    2

\* largest decomp_factor drawn
MaxDecomp ==
    3

\* rows of hidden_states: values far above the 1e-9 clamp minimum
LmRowSet ==
    { <<RInt(0), RInt(0)>>, <<RInt(128), RInt(0)>>, <<RInt(-256), RInt(96)>>,
      <<RInt(0), RInt(-256)>>, <<RInt(96), RInt(128)>> }

\* lm_weight tensors (vocab x hidden_dim)
LmWeightSet ==
    { << <<RInt(224), RInt(0)>>, <<RInt(0), RInt(224)>> >>,
      << <<RInt(224), RInt(-224)>>, <<RInt(96), RInt(224)>>, <<RInt(0), RInt(-64)>> >> }

LmShapes ==
    {bt \in {1, 2} \X (0..MaxRows) : bt[1] * bt[2] <= MaxRows}

\* the call LmHeadTender.forward(hidden_states, lm_weight) about to run, the rows
\* of hidden_states drawn from rowset and the dtype's precision from bitset
LmStart(rowset, bitset) ==
    /\ lm_pass = 0
    /\ lm_first = <<>>
    /\ lm_dtype_bits \in bitset
    /\ XIdleButLm
    /\ PrimIdle
    /\ AtIdle
    /\ divisors = {}
    /\ lm_pc = "start"
    /\ \E bt \in LmShapes :
          /\ lm_bsz = bt[1]
          /\ lm_orig_tgt_len = bt[2]
          /\ lm_hidden_states \in [1..(bt[1] * bt[2]) -> rowset]
    /\ lm_weight \in LmWeightSet
    /\ lm_chunk_size \in 1..MaxChunkSize
    /\ lm_decomp_factor \in 1..MaxDecomp
    /\ lm_Wl = <<>>
    /\ lm_chunks = -1
    /\ lm_pad_num = -1
    /\ lm_hidden_chunks = <<>>
    /\ lm_result = <<>>
    /\ lm_tmax = <<>>
    /\ lm_thresholds = <<>>
    /\ lm_cmax = <<>>
    /\ lm_count = <<>>
    /\ lm_i = 0
    /\ lm_logits = <<>>

\* exact arithmetic: the conversions to the dtype are the identity
InitLm ==
    LmStart(LmRowSet, {0})

LmHiddenDim ==
    Len(lm_weight[1])

LmVocab ==
    Len(lm_weight)

\* scale = max(abs(lm_weight), dim = -1, keepdim = True)[0] / q_max
LmWeightScale(w) ==
    [v \in DOMAIN w |-> RDiv(RowAbsMax(w[v]), RInt(QMax(LmQBits)))]

\* the weight is quantized row-wise and transposed
LmWeightQuant ==
    /\ lm_pc = "start"
    /\ LET exact == LmWeightScale(lm_weight)
           scale == [v \in DOMAIN exact |-> ToDtype(exact[v], lm_dtype_bits)]
       IN  IF ScaleAssertOk(scale)
              THEN /\ lm_Wl' = Transpose(
                          [v \in DOMAIN lm_weight |-> [k \in DOMAIN lm_weight[v] |->
                              ToDtype(sym_dequant_elem(
                                          sym_quant_elem(lm_weight[v][k], scale[v], LmQBits),
                                          scale[v]),
                                      lm_dtype_bits)]],
                          LmHiddenDim)
                   /\ divisors' = divisors \cup SymQuantDivisors(scale)
                   /\ lm_pc' = "weight_done"
              ELSE /\ lm_Wl' = <<>>
                   /\ lm_pc' = "zero_scale_assert"
                   /\ UNCHANGED divisors
    /\ UNCHANGED <<lm_in_vars, lm_chunk_vars, lm_result, lm_stat_vars, lm_count, lm_i,
                   lm_logits>>
    /\ UNCHANGED <<x_vars, p_vars, at_vars>>

\* chunks, assert(chunks != 0), padding, reshape, result = zeros_like
LmChunk ==
    /\ lm_pc = "weight_done"
    /\ LET tgt_len == Len(lm_hidden_states)
           chunks == CeilDiv(tgt_len, lm_chunk_size)
           padded_rows == chunks * lm_chunk_size
           pad_num == padded_rows - tgt_len
           hidden_chunks == ToChunks(PadRows(lm_hidden_states, pad_num, LmHiddenDim),
                                     chunks, lm_chunk_size)
       IN  /\ lm_chunks' = chunks
           /\ IF chunks # 0
                 THEN /\ lm_pad_num' = pad_num
                      /\ lm_hidden_chunks' = hidden_chunks
                      /\ lm_result' = ZerosLike(hidden_chunks)
                      /\ lm_pc' = "chunked"
                 ELSE /\ lm_pc' = "chunks_assert"
                      /\ UNCHANGED <<lm_pad_num, lm_hidden_chunks, lm_result>>
    /\ UNCHANGED <<lm_in_vars, lm_Wl, lm_stat_vars, lm_count, lm_i, lm_logits>>
    /\ UNCHANGED <<x_vars, p_vars, at_vars, divisors>>

\* h_tmax, thresholds, h_cmax
LmStats ==
    /\ lm_pc = "chunked"
    /\ lm_tmax' = ChunkTensorMax(lm_hidden_chunks)
    /\ lm_thresholds' = Thresholds(ChunkTensorMax(lm_hidden_chunks), lm_decomp_factor)
    /\ lm_cmax' = ChunkChannelMax(lm_hidden_chunks, LmHiddenDim)
    /\ lm_i' = 0
    /\ lm_pc' = "bands"
    /\ UNCHANGED <<lm_in_vars, lm_Wl, lm_chunk_vars, lm_result, lm_count, lm_logits>>
    /\ UNCHANGED <<x_vars, p_vars, at_vars, divisors>>

\* one iteration of the band loop
LmBand ==
    /\ lm_pc = "bands"
    /\ lm_i < lm_decomp_factor
    /\ LET mask == BandMask("closed_top", lm_i, lm_decomp_factor, lm_cmax, lm_thresholds)
           cnt == MaskCount(mask)
           exact == BandScale(lm_thresholds, lm_i, QMax(LmQBits))
           scale == [c \in DOMAIN exact |-> ToDtype(exact[c], lm_dtype_bits)]
       IN  /\ lm_count' = Append(lm_count, cnt)
           /\ IF cnt = 0
                 THEN /\ lm_i' = lm_i + 1
                      /\ UNCHANGED <<lm_pc, lm_result, divisors>>
                 ELSE IF ScaleAssertOk(scale)
                 THEN /\ lm_result' = DtypeChunks(
                             AddChunks(lm_result,
                                 DtypeChunks(
                                     QuantDequantChunks(
                                         MaskedChunks(mask, lm_hidden_chunks),
                                         scale, LmQBits),
                                     lm_dtype_bits)),
                             lm_dtype_bits)
                      /\ divisors' = divisors \cup SymQuantDivisors(scale)
                      /\ lm_i' = lm_i + 1
                      /\ UNCHANGED lm_pc
                 ELSE /\ lm_pc' = "zero_scale_assert"
                      /\ UNCHANGED <<lm_i, lm_result, divisors>>
    /\ UNCHANGED <<lm_in_vars, lm_Wl, lm_chunk_vars, lm_stat_vars, lm_logits>>
    /\ UNCHANGED <<x_vars, p_vars, at_vars>>

\* assert sum(count) == (hidden_dim * chunks)
LmCoverage ==
    /\ lm_pc = "bands"
    /\ lm_i = lm_decomp_factor
    /\ lm_pc' = IF SeqSumInt(lm_count) = LmHiddenDim * lm_chunks
                   THEN "covered" ELSE "coverage_assert"
    /\ UNCHANGED <<lm_in_vars, lm_Wl, lm_chunk_vars, lm_result, lm_stat_vars, lm_count,
                   lm_i, lm_logits>>
    /\ UNCHANGED <<x_vars, p_vars, at_vars, divisors>>

\* lm_out = matmul(result, Wl); logits = lm_out.reshape(padded_rows, -1)[:bsz * orig_tgt_len]
LmOutput ==
    /\ lm_pc = "covered"
    /\ lm_logits' = LET lm_out == MatMul(FromChunks(lm_result, lm_chunks, lm_chunk_size),
                                         lm_Wl, LmVocab)
                    IN  FirstRows([r \in DOMAIN lm_out |-> [v \in DOMAIN lm_out[r] |->
                                      ToDtype(lm_out[r][v], lm_dtype_bits)]],
                                  lm_bsz * lm_orig_tgt_len)
    /\ lm_pc' = "done"
    /\ UNCHANGED <<lm_in_vars, lm_Wl, lm_chunk_vars, lm_result, lm_stat_vars, lm_count,
                   lm_i>>
    /\ UNCHANGED <<x_vars, p_vars, at_vars, divisors>>

NextLm ==
    \/ LmWeightQuant
    \/ LmChunk
    \/ LmStats
    \/ LmBand
    \/ LmCoverage
    \/ LmOutput

SpecLm ==
    InitLm /\ [][NextLm]_vars

\* the band (0-based) whose mask selects channel ch of chunk c
LmBandOf(c, ch) ==
    CHOOSE i \in 0..(lm_decomp_factor - 1) :
        MaskClosedTop(i, lm_decomp_factor, lm_cmax[c][ch], lm_thresholds, c)

\* result.reshape(padded_rows, -1)[:bsz * orig_tgt_len]: the reconstructed tensor
LmReconstructed ==
    FirstRows(FromChunks(lm_result, lm_chunks, lm_chunk_size), lm_bsz * lm_orig_tgt_len)

\* a caller gives the reconstructed tensor of a finished call to forward again,
\* same lm_weight, q_bits, chunk_size and decomp_factor
LmReapply ==
    /\ lm_pc = "done"
    /\ lm_pass = 0
    /\ lm_pass' = 1
    /\ lm_first' = [ input |-> lm_hidden_states,
                     tmax |-> lm_tmax,
                     thresholds |-> lm_thresholds,
                     bands |-> [c \in DOMAIN lm_cmax |->
                                   [ch \in DOMAIN lm_cmax[c] |-> LmBandOf(c, ch)]],
                     output |-> LmReconstructed ]
    /\ lm_hidden_states' = LmReconstructed
    /\ lm_pc' = "start"
    /\ lm_Wl' = <<>>
    /\ lm_chunks' = -1
    /\ lm_pad_num' = -1
    /\ lm_hidden_chunks' = <<>>
    /\ lm_result' = <<>>
    /\ lm_tmax' = <<>>
    /\ lm_thresholds' = <<>>
    /\ lm_cmax' = <<>>
    /\ lm_count' = <<>>
    /\ lm_i' = 0
    /\ lm_logits' = <<>>
    /\ UNCHANGED <<lm_bsz, lm_orig_tgt_len, lm_weight, lm_chunk_size, lm_decomp_factor,
                   lm_dtype_bits>>
    /\ UNCHANGED <<p_vars, at_vars, divisors, x_but_lm>>

NextLmTwice ==
    \/ NextLm
    \/ LmReapply

\* significant bits of torch.bfloat16
BFloat16Bits ==
    8

\* rows of bfloat16 hidden states
LmDtypeRowSet ==
    { <<RInt(232), RInt(96)>>, <<RInt(-40), RInt(0)>>, <<RInt(96), RInt(-232)>> }

\* hidden states in bfloat16, computed exactly or with the dtype's rounding
InitLmTwice ==
    LmStart(LmDtypeRowSet, {0, BFloat16Bits})

SpecLmTwice ==
    InitLmTwice /\ [][NextLmTwice]_vars

\* rows of bfloat16 hidden states, one of them half a quantization step of
\* the other rows' band above zero (16.625 = 232 / 7 rounded to bfloat16, halved)
LmHalfStepRowSet ==
    { <<RInt(232), RInt(96)>>, <<Rat(133, 8), RInt(0)>>, <<RInt(96), RInt(-232)>> }

InitLmDtype ==
    LmStart(LmHalfStepRowSet, {0, BFloat16Bits})

SpecLmDtype ==
    InitLmDtype /\ [][NextLm]_vars

(***************************************************************************)
(* LlamaAttention_Tender_Eval.forward, from the shaped query, key and      *)
(* value states on.  The projections, the rotary embedding, the KV cache   *)
(* concatenation and repeat_kv produce the inputs drawn here; the softmax  *)
(* is any row-stochastic tensor of a small family.  Tensors are indexed    *)
(* t[b*h][row][channel]; query_states is the tensor after the division by  *)
(* math.sqrt(head_dim).  Attention probabilities are plain rationals       *)
(* (1 = probability 1).                                                    *)
(***************************************************************************)
\* Python's None, as the value of a field or argument that holds no tensor
None ==
    <<>>

\* self.q_bits of LlamaAttention_Tender_Eval
AtQBits ==
    4

\* largest q_len drawn
MaxQLen ==
    2

AtShapes ==
    {<<1, 1>>, <<1, 2>>, <<2, 1>>}

AtPastLens ==
    {0, 2}

\* rows of the scaled query states
AtQueryRowSet ==
    { <<RInt(0), RInt(0)>>, <<RInt(2048), RInt(-512)>>, <<RInt(-1024), RInt(1536)>>,
      <<RInt(512), RInt(2048)>> }

SwapRow(row) ==
    <<row[2], row[1]>>

\* the query tensor: slice 1 is drawn, slice b > 1 holds the rows of slice 1 in
\* reverse order with the two channels exchanged
AtQueryTensors(bh, q_len) ==
    { [b \in 1..bh |-> [r \in 1..q_len |->
          IF b = 1 THEN rows[r] ELSE SwapRow(rows[q_len + 1 - r])]] :
      rows \in [1..q_len -> AtQueryRowSet] }

AtKeyRow(j) ==
    IF j % 3 = 1 THEN <<RInt(64), RInt(-128)>>
    ELSE IF j % 3 = 2 THEN <<RInt(-64), RInt(32)>>
    ELSE <<RInt(192), RInt(0)>>

AtValueRow(j) ==
    IF j % 3 = 1 THEN <<RInt(112), RInt(-16)>>
    ELSE IF j % 3 = 2 THEN <<RInt(-48), RInt(80)>>
    ELSE <<RInt(0), RInt(-112)>>

AtKeyTensor(bh, src_len) ==
    [b \in 1..bh |-> [j \in 1..src_len |-> AtKeyRow(j + b - 1)]]

AtValueTensor(bh, src_len) ==
    [b \in 1..bh |-> [j \in 1..src_len |-> AtValueRow(j + b - 1)]]

\* the fields __init__ sets, with the configuration a caller may assign
AtSelf(quant_mha, chunk_size, decomp_factor, num_heads) ==
    [ num_heads |-> num_heads, num_key_value_heads |-> num_heads, head_dim |-> 2,
      embed_dim |-> "unset", kv_dim |-> "unset",
      quant_mha |-> quant_mha, q_bits |-> AtQBits,
      decomp_factor |-> decomp_factor, chunk_size |-> chunk_size,
      k_ch_bias_cal |-> None, q_ch_bias_cal |-> None,
      k_ch_bias |-> None, q_ch_bias |-> None,
      q_tmax_cal |-> None, s_tmax_cal |-> None,
      q_tmax |-> None, s_tmax |-> None,
      q_cmax_cal |-> None, s_cmax_cal |-> None,
      q_group_index |-> None, s_group_index |-> None,
      k_scale |-> None, k_scale_cal |-> None,
      v_scale |-> None, v_scale_cal |-> None ]

InitAttn ==
    /\ XIdle
    /\ PrimIdle
    /\ LmIdle
    /\ divisors = {}
    /\ at_pc = "start"
    /\ \E shape \in AtShapes, q_len \in 0..MaxQLen, past \in AtPastLens :
          /\ at_self \in { AtSelf(qm, cs, df, shape[2]) :
                              qm \in BOOLEAN, cs \in 1..MaxChunkSize, df \in 1..MaxDecomp }
          /\ at_in \in { [ bsz |-> shape[1], q_len |-> q_len, kv_seq_len |-> past + q_len,
                           query_states |-> q,
                           key_states |-> AtKeyTensor(shape[1] * shape[2], past + q_len),
                           value_states |-> AtValueTensor(shape[1] * shape[2], past + q_len) ] :
                         q \in AtQueryTensors(shape[1] * shape[2], q_len) }
    /\ at_k_ch_bias = <<>>
    /\ at_K = <<>>
    /\ at_chunks = -1
    /\ at_pad_num = -1
    /\ at_hidden_chunks = <<>>
    /\ at_q_ch_bias = <<>>
    /\ at_o_ch_bias = <<>>
    /\ at_q_tmax = <<>>
    /\ at_q_cmax = <<>>
    /\ at_s_tmax = <<>>
    /\ at_s_cmax = <<>>
    /\ at_thresholds = <<>>
    /\ at_count = <<>>
    /\ at_i = 0
    /\ at_result = <<>>
    /\ at_attn_weights = <<>>
    /\ at_V = <<>>
    /\ at_attn_output = <<>>

\* a faulty leading dimension: the heads of the first batch element only
AtHeadsOnly ==
    at_self.num_heads

\* bsz * num_heads, the leading dimension after the views
AtBH ==
    at_in.bsz * at_self.num_heads

AtSrcLen ==
    at_in.kv_seq_len

Dot(u, v) ==
    SeqSumRat([k \in DOMAIN u |-> RMul(u[k], v[k])])

\* torch.div(ch_max + ch_min, 2) over the rows of t, per channel
ChannelBias(t, dim) ==
    [ch \in 1..dim |->
        RDiv(RAdd(SeqMax([r \in DOMAIN t |-> t[r][ch]]),
                  SeqMin([r \in DOMAIN t |-> t[r][ch]])), RInt(2))]

\* a faulty subtraction: the row left as it is
SubRowKept(row, bias) ==
    row

SubRow(row, bias) ==
    [ch \in DOMAIN row |-> RSub(row[ch], bias[ch])]

\* the scales of a tensor indexed [b*h][k], flattened for the assertion
FlatScales(scale) ==
    UNION { {scale[b][k] : k \in DOMAIN scale[b]} : b \in DOMAIN scale }

\* assert torch.sum(scale == 0.0).item() == 0.0 on a [b*h][k] scale
ScaleAssertOk2(scale) ==
    Zero \notin FlatScales(scale)

\* t[:, :n]
SliceDim1Whole(t, n) ==
    t

SliceDim1(t, n) ==
    [b \in DOMAIN t |-> SubSeq(t[b], 1, IF n < Len(t[b]) THEN n ELSE Len(t[b]))]

\* a faulty forward that also stores a statistic whatever quant_mha is
AtSetDimsAndCal(self) ==
    [self EXCEPT !.embed_dim = self.num_heads * self.head_dim,
                 !.kv_dim = self.num_key_value_heads * self.head_dim,
                 !.k_scale_cal = << <<Zero>> >>]

\* self.embed_dim = dimensions; self.kv_dim = self.k_proj.weight.data.shape[0]
AtSetDims(self) ==
    [self EXCEPT !.embed_dim = self.num_heads * self.head_dim,
                 !.kv_dim = self.num_key_value_heads * self.head_dim]

\* a statistic stored in the module: self.<name>_cal = value
StoreInPlace(self, name, value) ==
    [self EXCEPT ![name] = value]

StoreCal(self, name, value) ==
    IF name = "k_ch_bias" THEN [self EXCEPT !.k_ch_bias_cal = value]
    ELSE IF name = "k_scale" THEN [self EXCEPT !.k_scale_cal = value]
    ELSE IF name = "q_ch_bias" THEN [self EXCEPT !.q_ch_bias_cal = value]
    ELSE IF name = "q_tmax" THEN [self EXCEPT !.q_tmax_cal = value]
    ELSE IF name = "q_cmax" THEN [self EXCEPT !.q_cmax_cal = value]
    ELSE IF name = "v_scale" THEN [self EXCEPT !.v_scale_cal = value]
    ELSE IF name = "s_tmax" THEN [self EXCEPT !.s_tmax_cal = value]
    ELSE [self EXCEPT !.s_cmax_cal = value]

\* q_tmax: computed from hidden_chunks, or self.q_tmax[:, :chunks]
AtQTmax(computed) ==
    IF at_self.q_tmax = None THEN computed ELSE SliceDim1(at_self.q_tmax, at_chunks)

\* quant_mha == False: attn_weights = matmul(query_states, key_states^T) / sqrt(head_dim)
AtPlainScores ==
    /\ at_pc = "start"
    /\ at_self.quant_mha = FALSE
    /\ at_attn_weights' = [b \in 1..AtBH |-> [r \in 1..at_in.q_len |-> [s \in 1..AtSrcLen |->
           Dot(at_in.query_states[b][r], at_in.key_states[b][s])]]]
    /\ at_pc' = "scored"
    /\ at_self' = AtSetDims(at_self)
    /\ UNCHANGED <<at_in, at_key_vars, at_chunk_vars, at_q_vars, at_s_vars,
                   at_loop_vars, at_attn_output>>
    /\ UNCHANGED <<x_vars, p_vars, lm_vars, divisors>>

\* key normalize and the row-wise symmetric quantization of the keys
AtKey ==
    /\ at_pc = "start"
    /\ at_self.quant_mha = TRUE
    /\ IF AtSrcLen = 0 /\ at_self.k_ch_bias = None
          THEN \* torch.max over an empty dimension raises
               /\ at_pc' = "empty_reduce_error"
               /\ at_self' = AtSetDims(at_self)
               /\ UNCHANGED <<at_key_vars, at_k_scale, divisors>>
          ELSE LET computed == [b \in 1..AtBH |->
                                   ChannelBias(at_in.key_states[b], at_self.head_dim)]
                   k_ch_bias == IF at_self.k_ch_bias = None
                                   THEN computed ELSE at_self.k_ch_bias
                   K == [b \in 1..AtBH |-> [j \in 1..AtSrcLen |->
                            SubRow(at_in.key_states[b][j], k_ch_bias[b])]]
                   cal == [b \in 1..AtBH |-> [j \in 1..AtSrcLen |->
                              RDiv(RowAbsMax(K[b][j]), RInt(QMax(at_self.q_bits)))]]
                   scale == IF at_self.k_scale = None
                               THEN cal
                               ELSE SliceDim1(at_self.k_scale, AtSrcLen)
                   self1 == IF at_self.k_ch_bias = None
                               THEN StoreCal(AtSetDims(at_self), "k_ch_bias", computed)
                               ELSE AtSetDims(at_self)
                   self2 == IF at_self.k_scale = None
                               THEN StoreCal(self1, "k_scale", cal)
                               ELSE self1
               IN  /\ at_self' = self2
                   /\ at_k_ch_bias' = k_ch_bias
                   /\ at_k_scale' = scale
                   /\ IF ScaleAssertOk2(scale)
                         THEN /\ at_K' = [b \in 1..AtBH |-> [j \in 1..AtSrcLen |->
                                     [ch \in 1..at_self.head_dim |->
                                         sym_dequant_elem(
                                             sym_quant_elem(K[b][j][ch], scale[b][j],
                                                            at_self.q_bits),
                                             scale[b][j])]]]
                              /\ divisors' = divisors \cup
                                     {ClampScale(s) : s \in FlatScales(scale)}
                              /\ at_pc' = "key_done"
                         ELSE /\ at_pc' = "zero_scale_assert"
                              /\ UNCHANGED <<at_K, divisors>>
    /\ UNCHANGED <<at_in, at_chunk_vars, at_q_vars, at_s_vars, at_loop_vars,
                   at_attn_weights, at_attn_output>>
    /\ UNCHANGED <<x_but_at, at_v_scale, at_scores, p_vars, lm_vars>>

\* the chunking of t[b*h][row] into [b*h][chunk][row]
AtChunked(t, q_len, chunk_size, dim) ==
    LET chunks == CeilDiv(q_len, chunk_size)
        pad_num == chunks * chunk_size - q_len
    IN  [b \in DOMAIN t |-> ToChunks(PadRows(t[b], pad_num, dim), chunks, chunk_size)]

\* chunking of the queries: chunks, assert (chunks != 0), padding, reshape
AtChunk ==
    /\ at_pc = "key_done"
    /\ LET tgt_len == at_in.q_len
           chunks == CeilDiv(tgt_len, at_self.chunk_size)
           hidden_chunks == AtChunked(at_in.query_states, tgt_len, at_self.chunk_size,
                                      at_self.head_dim)
       IN  /\ at_chunks' = chunks
           /\ IF chunks # 0
                 THEN /\ at_pad_num' = chunks * at_self.chunk_size - tgt_len
                      /\ at_hidden_chunks' = hidden_chunks
                      /\ at_result' = [b \in 1..AtBH |-> ZerosLike(hidden_chunks[b])]
                      /\ at_pc' = "chunked"
                 ELSE /\ at_pc' = "chunks_assert"
                      /\ UNCHANGED <<at_pad_num, at_hidden_chunks, at_result>>
    /\ UNCHANGED <<at_self, at_in, at_key_vars, at_q_vars, at_s_vars, at_thresholds,
                   at_count, at_i, at_attn_weights, at_attn_output>>
    /\ UNCHANGED <<x_vars, p_vars, lm_vars, divisors>>

\* Acts normalize: q_ch_bias, the three compensation terms, hidden_chunks -= q_ch_bias
AtBias ==
    /\ at_pc = "chunked"
    /\ LET computed == [b \in 1..AtBH |-> [c \in 1..at_chunks |->
                           ChannelBias(at_hidden_chunks[b][c], at_self.head_dim)]]
           q_ch_bias == IF at_self.q_ch_bias = None
                           THEN computed
                           ELSE SliceDim1(at_self.q_ch_bias, at_chunks)
           o1 == [b \in 1..AtBH |-> [c \in 1..at_chunks |-> [s \in 1..AtSrcLen |->
                     Dot(q_ch_bias[b][c], at_in.key_states[b][s])]]]
           o2 == [b \in 1..AtBH |-> [c \in 1..at_chunks |->
                     [r \in 1..at_self.chunk_size |->
                         Dot(at_hidden_chunks[b][c][r], at_k_ch_bias[b])]]]
           o3 == [b \in 1..AtBH |-> [c \in 1..at_chunks |->
                     RSub(Zero, Dot(q_ch_bias[b][c], at_k_ch_bias[b]))]]
       IN  /\ at_self' = IF at_self.q_ch_bias = None
                            THEN StoreCal(at_self, "q_ch_bias", computed)
                            ELSE at_self
           /\ at_q_ch_bias' = q_ch_bias
           /\ at_o_ch_bias' = [o1 |-> o1, o2 |-> o2, o3 |-> o3]
           /\ at_hidden_chunks' = [b \in 1..AtBH |-> [c \in 1..at_chunks |->
                  [r \in 1..at_self.chunk_size |->
                      SubRow(at_hidden_chunks[b][c][r], q_ch_bias[b][c])]]]
           /\ at_pc' = "unbiased"
    /\ UNCHANGED <<at_in, at_key_vars, at_chunks, at_pad_num, at_q_tmax, at_q_cmax,
                   at_s_vars, at_loop_vars, at_attn_weights, at_attn_output>>
    /\ UNCHANGED <<x_vars, p_vars, lm_vars, divisors>>

\* q_tmax, thresholds, q_cmax
AtStats ==
    /\ at_pc = "unbiased"
    /\ LET computed == [b \in 1..AtBH |-> ChunkTensorMax(at_hidden_chunks[b])]
           q_tmax == AtQTmax(computed)
           q_cmax == [b \in 1..AtBH |->
                         ChunkChannelMax(at_hidden_chunks[b], at_self.head_dim)]
           self1 == IF at_self.q_tmax = None
                       THEN StoreCal(at_self, "q_tmax", computed) ELSE at_self
       IN  /\ at_q_tmax' = q_tmax
           /\ at_thresholds' = [b \in 1..AtBH |-> Thresholds(q_tmax[b], at_self.decomp_factor)]
           /\ IF at_self.q_group_index = None
                 THEN /\ at_q_cmax' = q_cmax
                      /\ at_self' = StoreCal(self1, "q_cmax", q_cmax)
                 ELSE /\ at_self' = self1
                      /\ UNCHANGED at_q_cmax
           /\ at_count' = <<>>
           /\ at_i' = 0
           /\ at_pc' = "bands"
    /\ UNCHANGED <<at_in, at_key_vars, at_chunk_vars, at_q_ch_bias, at_o_ch_bias, at_s_vars,
                   at_result, at_attn_weights, at_attn_output>>
    /\ UNCHANGED <<x_vars, p_vars, lm_vars, divisors>>

\* mask of band i from a supplied group index: (group_index[:, :chunks] == i)
GroupMask(group_index, i, bh, chunks, dim) ==
    [b \in 1..bh |-> [c \in 1..chunks |-> [ch \in 1..dim |-> group_index[b][c][ch] = i]]]

\* one iteration of the query band loop (inclusive upper bound for every band)
AtBand ==
    /\ at_pc = "bands"
    /\ at_i < at_self.decomp_factor
    /\ LET mask == IF at_self.q_group_index = None
                      THEN [b \in 1..AtBH |->
                               BandMask("inclusive", at_i, at_self.decomp_factor,
                                        at_q_cmax[b], at_thresholds[b])]
                      ELSE GroupMask(at_self.q_group_index, at_i, AtBH, at_chunks,
                                     at_self.head_dim)
           cnt == SeqSumInt([b \in 1..AtBH |-> MaskCount(mask[b])])
           scale == [b \in 1..AtBH |->
                        BandScale(at_thresholds[b], at_i, QMax(at_self.q_bits))]
       IN  /\ at_count' = Append(at_count, cnt)
           /\ IF cnt = 0
                 THEN /\ at_i' = at_i + 1
                      /\ UNCHANGED <<at_pc, at_result, divisors>>
                 ELSE IF ScaleAssertOk2(scale)
                 THEN /\ at_result' = [b \in 1..AtBH |-> AddChunks(at_result[b],
                             QuantDequantChunks(MaskedChunks(mask[b], at_hidden_chunks[b]),
                                                scale[b], at_self.q_bits))]
                      /\ divisors' = divisors \cup {ClampScale(s) : s \in FlatScales(scale)}
                      /\ at_i' = at_i + 1
                      /\ UNCHANGED at_pc
                 ELSE /\ at_pc' = "zero_scale_assert"
                      /\ UNCHANGED <<at_i, at_result, divisors>>
    /\ UNCHANGED <<at_self, at_in, at_key_vars, at_chunk_vars, at_q_vars, at_s_vars,
                   at_thresholds, at_attn_weights, at_attn_output>>
    /\ UNCHANGED <<x_vars, p_vars, lm_vars>>

\* assert sum(count) == (self.num_heads * self.head_dim * chunks)
AtCoverage ==
    /\ at_pc = "bands"
    /\ at_i = at_self.decomp_factor
    /\ at_pc' = IF SeqSumInt(at_count) = at_self.num_heads * at_self.head_dim * at_chunks
                   THEN "covered" ELSE "coverage_assert"
    /\ UNCHANGED <<at_self, at_in, at_key_vars, at_chunk_vars, at_q_vars, at_s_vars,
                   at_loop_vars, at_attn_weights, at_attn_output>>
    /\ UNCHANGED <<x_vars, p_vars, lm_vars, divisors>>

\* attn_weights = matmul(result, K) + o1_ch_bias + o2_ch_bias + o3_ch_bias, trimmed
AtScores ==
    /\ at_pc = "covered"
    /\ at_attn_weights' = [b \in 1..AtBH |->
           LET flat == FromChunks(at_result[b], at_chunks, at_self.chunk_size)
               prod == MatMul(flat, Transpose(at_K[b], at_self.head_dim), AtSrcLen)
           IN  [row \in 1..at_in.q_len |-> [s \in 1..AtSrcLen |->
                   LET c == ((row - 1) \div at_self.chunk_size) + 1
                       r == ((row - 1) % at_self.chunk_size) + 1
                   IN  RAdd(RAdd(prod[row][s], at_o_ch_bias.o1[b][c][s]),
                            RAdd(at_o_ch_bias.o2[b][c][r], at_o_ch_bias.o3[b][c]))]]]
    /\ at_pc' = "scored"
    /\ UNCHANGED <<at_self, at_in, at_key_vars, at_chunk_vars, at_q_vars, at_s_vars,
                   at_loop_vars, at_attn_output>>
    /\ UNCHANGED <<x_vars, p_vars, lm_vars, divisors>>

\* a softmax output row r (of q_len) over n = past + q_len columns
ProbRow(kind, r, past, n) ==
    IF kind = "causal"
        THEN [s \in 1..n |-> IF s <= past + r THEN Rat(1, past + r) ELSE Zero]
        ELSE IF n = 1 THEN <<RInt(1)>>
        ELSE [s \in 1..n |-> IF s = 1 THEN Rat(7, 8) ELSE IF s = 2 THEN Rat(1, 8) ELSE Zero]

ProbKinds ==
    {"causal", "skewed"}

\* the softmax outputs a call can see: the one its attention_mask fixes, or any of
\* the family when the mask is left open
AtSoftmaxKinds ==
    IF "attention_mask" \in DOMAIN at_in THEN {at_in.attention_mask} ELSE ProbKinds

\* the size checks, the attention mask and the softmax: attn_weights becomes a
\* row-stochastic tensor
AtSoftmax ==
    /\ at_pc = "scored"
    /\ \E kind \in AtSoftmaxKinds :
          at_attn_weights' = [b \in 1..AtBH |-> [r \in 1..at_in.q_len |->
              ProbRow(kind, r, AtSrcLen - at_in.q_len, AtSrcLen)]]
    /\ at_scores' = at_attn_weights
    /\ at_pc' = "softmaxed"
    /\ UNCHANGED <<at_self, at_in, at_key_vars, at_chunk_vars, at_q_vars, at_s_vars,
                   at_loop_vars, at_attn_output>>
    /\ UNCHANGED <<x_but_at, at_k_scale, at_v_scale, p_vars, lm_vars, divisors>>

\* quant_mha == False: attn_output = matmul(attn_weights, value_states)
AtPlainOutput ==
    /\ at_pc = "softmaxed"
    /\ at_self.quant_mha = FALSE
    /\ at_attn_output' = [b \in 1..AtBH |->
           MatMul(at_attn_weights[b], at_in.value_states[b], at_self.head_dim)]
    /\ at_pc' = "done"
    /\ UNCHANGED <<at_self, at_in, at_key_vars, at_chunk_vars, at_q_vars, at_s_vars,
                   at_loop_vars, at_attn_weights>>
    /\ UNCHANGED <<x_vars, p_vars, lm_vars, divisors>>

\* the channel-wise symmetric quantization of the values
AtValue ==
    /\ at_pc = "softmaxed"
    /\ at_self.quant_mha = TRUE
    /\ LET cal == [b \in 1..AtBH |-> [ch \in 1..at_self.head_dim |->
                      RDiv(SeqMax([j \in 1..AtSrcLen |-> RAbs(at_in.value_states[b][j][ch])]),
                           RInt(QMax(at_self.q_bits)))]]
           scale == IF at_self.v_scale = None THEN cal ELSE at_self.v_scale
       IN  /\ at_self' = IF at_self.v_scale = None
                            THEN StoreCal(at_self, "v_scale", cal) ELSE at_self
           /\ at_v_scale' = scale
           /\ IF ScaleAssertOk2(scale)
                 THEN /\ at_V' = [b \in 1..AtBH |-> [j \in 1..AtSrcLen |->
                             [ch \in 1..at_self.head_dim |->
                                 sym_dequant_elem(
                                     sym_quant_elem(at_in.value_states[b][j][ch],
                                                    scale[b][ch], at_self.q_bits),
                                     scale[b][ch])]]]
                      /\ divisors' = divisors \cup {ClampScale(s) : s \in FlatScales(scale)}
                      /\ at_pc' = "value_done"
                 ELSE /\ at_pc' = "zero_scale_assert"
                      /\ UNCHANGED <<at_V, divisors>>
    /\ UNCHANGED <<at_in, at_key_vars, at_chunk_vars, at_q_vars, at_s_tmax, at_s_cmax,
                   at_loop_vars, at_attn_weights, at_attn_output>>
    /\ UNCHANGED <<x_but_at, at_k_scale, at_scores, p_vars, lm_vars>>

\* chunking of the attention probabilities
AtSChunk ==
    /\ at_pc = "value_done"
    /\ LET tgt_len == at_in.q_len
           chunks == CeilDiv(tgt_len, at_self.chunk_size)
           hidden_chunks == AtChunked(at_attn_weights, tgt_len, at_self.chunk_size, AtSrcLen)
       IN  /\ at_chunks' = chunks
           /\ IF chunks # 0
                 THEN /\ at_pad_num' = chunks * at_self.chunk_size - tgt_len
                      /\ at_hidden_chunks' = hidden_chunks
                      /\ at_result' = [b \in 1..AtBH |-> ZerosLike(hidden_chunks[b])]
                      /\ at_pc' = "s_chunked"
                 ELSE /\ at_pc' = "chunks_assert"
                      /\ UNCHANGED <<at_pad_num, at_hidden_chunks, at_result>>
    /\ UNCHANGED <<at_self, at_in, at_key_vars, at_q_vars, at_s_vars, at_thresholds,
                   at_count, at_i, at_attn_weights, at_attn_output>>
    /\ UNCHANGED <<x_vars, p_vars, lm_vars, divisors>>

\* s_tmax, thresholds, s_cmax
AtSStats ==
    /\ at_pc = "s_chunked"
    /\ LET computed == [b \in 1..AtBH |-> ChunkTensorMax(at_hidden_chunks[b])]
           s_tmax == IF at_self.s_tmax = None
                        THEN computed
                        ELSE SliceDim1(at_self.s_tmax, at_chunks)
           s_cmax == [b \in 1..AtBH |-> ChunkChannelMax(at_hidden_chunks[b], AtSrcLen)]
           self1 == IF at_self.s_tmax = None
                       THEN StoreCal(at_self, "s_tmax", computed) ELSE at_self
       IN  /\ at_s_tmax' = s_tmax
           /\ at_thresholds' = [b \in 1..AtBH |-> Thresholds(s_tmax[b], at_self.decomp_factor)]
           /\ IF at_self.s_group_index = None
                 THEN /\ at_s_cmax' = s_cmax
                      /\ at_self' = StoreCal(self1, "s_cmax", s_cmax)
                 ELSE /\ at_self' = self1
                      /\ UNCHANGED at_s_cmax
           /\ at_count' = <<>>
           /\ at_i' = 0
           /\ at_pc' = "s_bands"
    /\ UNCHANGED <<at_in, at_key_vars, at_chunk_vars, at_q_vars, at_V, at_result,
                   at_attn_weights, at_attn_output>>
    /\ UNCHANGED <<x_vars, p_vars, lm_vars, divisors>>

\* a faulty prob_q_max: the signed maximum 2 ** (q_bits - 1) - 1
ProbQMaxSigned(q_bits) ==
    Pow2(q_bits - 1) - 1

\* prob_q_max = 2 ** q_bits - 1
ProbQMax(q_bits) ==
    Pow2(q_bits) - 1

\* torch.round(decomp_fp / scale).clamp(min = 0, max = prob_q_max) * scale, per chunk scale
ProbQuantDequantChunks(fp, scale, q_bits) ==
    [c \in DOMAIN fp |-> [r \in DOMAIN fp[c] |-> [ch \in DOMAIN fp[c][r] |->
        sym_dequant_elem(
            ClampInt(RoundHalfEven(RDiv(fp[c][r][ch], scale[c])), 0, ProbQMax(q_bits)),
            scale[c])]]]

\* one iteration of the score band loop (closed-top policy, unsigned range)
AtSBand ==
    /\ at_pc = "s_bands"
    /\ at_i < at_self.decomp_factor
    /\ LET mask == IF at_self.s_group_index = None
                      THEN [b \in 1..AtBH |->
                               BandMask("closed_top", at_i, at_self.decomp_factor,
                                        at_s_cmax[b], at_thresholds[b])]
                      ELSE GroupMask(at_self.s_group_index, at_i, AtBH, at_chunks, AtSrcLen)
           cnt == SeqSumInt([b \in 1..AtBH |-> MaskCount(mask[b])])
           scale == [b \in 1..AtBH |->
                        BandScale(at_thresholds[b], at_i, ProbQMax(at_self.q_bits))]
       IN  /\ at_count' = Append(at_count, cnt)
           /\ IF cnt = 0
                 THEN /\ at_i' = at_i + 1
                      /\ UNCHANGED <<at_pc, at_result, divisors>>
                 ELSE /\ divisors' = divisors \cup FlatScales(scale)
                      /\ IF Zero \notin FlatScales(scale)
                            THEN /\ at_result' = [b \in 1..AtBH |-> AddChunks(at_result[b],
                                        ProbQuantDequantChunks(
                                            MaskedChunks(mask[b], at_hidden_chunks[b]),
                                            scale[b], at_self.q_bits))]
                                 /\ at_i' = at_i + 1
                                 /\ UNCHANGED at_pc
                            ELSE \* a division by zero: result holds nan
                                 /\ at_pc' = "nan_result"
                                 /\ UNCHANGED <<at_i, at_result>>
    /\ UNCHANGED <<at_self, at_in, at_key_vars, at_chunk_vars, at_q_vars, at_s_vars,
                   at_thresholds, at_attn_weights, at_attn_output>>
    /\ UNCHANGED <<x_vars, p_vars, lm_vars>>

\* assert sum(count) == (self.num_heads * src_len * chunks)
AtSCoverage ==
    /\ at_pc = "s_bands"
    /\ at_i = at_self.decomp_factor
    /\ at_pc' = IF SeqSumInt(at_count) = at_self.num_heads * AtSrcLen * at_chunks
                   THEN "s_covered" ELSE "coverage_assert"
    /\ UNCHANGED <<at_self, at_in, at_key_vars, at_chunk_vars, at_q_vars, at_s_vars,
                   at_loop_vars, at_attn_weights, at_attn_output>>
    /\ UNCHANGED <<x_vars, p_vars, lm_vars, divisors>>

\* result trimmed to tgt_len rows; attn_output = matmul(result, V)
AtOutput ==
    /\ at_pc = "s_covered"
    /\ at_attn_output' = [b \in 1..AtBH |->
           MatMul(FirstRows(FromChunks(at_result[b], at_chunks, at_self.chunk_size),
                            at_in.q_len),
                  at_V[b], at_self.head_dim)]
    /\ at_pc' = "done"
    /\ UNCHANGED <<at_self, at_in, at_key_vars, at_chunk_vars, at_q_vars, at_s_vars,
                   at_loop_vars, at_attn_weights>>
    /\ UNCHANGED <<x_vars, p_vars, lm_vars, divisors>>

NextAttn ==
    \/ AtPlainScores
    \/ AtKey
    \/ AtChunk
    \/ AtBias
    \/ AtStats
    \/ AtBand
    \/ AtCoverage
    \/ AtScores
    \/ AtSoftmax
    \/ AtPlainOutput
    \/ AtValue
    \/ AtSChunk
    \/ AtSStats
    \/ AtSBand
    \/ AtSCoverage
    \/ AtOutput

SpecAttn ==
    InitAttn /\ [][NextAttn]_vars

\* a call whose keys, and for some queries whose queries too, lie on the
\* quantization grid once their bias is removed
AtGridKeyRow(j) ==
    IF j % 3 = 1 THEN <<RInt(64), RInt(-128)>>
    ELSE IF j % 3 = 2 THEN <<RInt(-64), RInt(0)>>
    ELSE <<RInt(64), RInt(0)>>

AtGridQueryRowSet ==
    { <<RInt(32), RInt(-32)>>, <<RInt(-96), RInt(96)>>, <<RInt(2048), RInt(-512)>> }

InitAttnGrid ==
    /\ XIdle
    /\ PrimIdle
    /\ LmIdle
    /\ divisors = {}
    /\ at_pc = "start"
    /\ \E q_len \in 1..MaxQLen :
          /\ at_self \in { AtSelf(qm, cs, df, 1) :
                              qm \in BOOLEAN, cs \in 1..MaxChunkSize, df \in 1..MaxDecomp }
          /\ at_in \in { [ bsz |-> 1, q_len |-> q_len, kv_seq_len |-> 1 + q_len,
                           query_states |-> <<q>>,
                           key_states |-> <<[j \in 1..(1 + q_len) |-> AtGridKeyRow(j)]>>,
                           value_states |-> AtValueTensor(1, 1 + q_len) ] :
                         q \in [1..q_len -> AtGridQueryRowSet] }
    /\ at_k_ch_bias = <<>>
    /\ at_K = <<>>
    /\ at_chunks = -1
    /\ at_pad_num = -1
    /\ at_hidden_chunks = <<>>
    /\ at_q_ch_bias = <<>>
    /\ at_o_ch_bias = <<>>
    /\ at_q_tmax = <<>>
    /\ at_q_cmax = <<>>
    /\ at_s_tmax = <<>>
    /\ at_s_cmax = <<>>
    /\ at_thresholds = <<>>
    /\ at_count = <<>>
    /\ at_i = 0
    /\ at_result = <<>>
    /\ at_attn_weights = <<>>
    /\ at_V = <<>>
    /\ at_attn_output = <<>>

SpecAttnGrid ==
    InitAttnGrid /\ [][NextAttn]_vars

\* a call of either decomposition quantizer
InitDecomp ==
    InitLm \/ InitAttn

NextDecomp ==
    NextLm \/ NextAttn

SpecDecomp ==
    InitDecomp /\ [][NextDecomp]_vars

(***************************************************************************)
(* A sequence of forward calls on one LlamaAttention_Tender_Eval module     *)
(* whose calibration fields a caller assigned after construction.  The      *)
(* supplied tensors were calibrated on longer sequences than the calls      *)
(* see: they hold more chunks and more key positions than a call needs.     *)
(***************************************************************************)
\* largest number of forward calls made on the module
MaxCalls ==
    3

\* chunks of the supplied per-chunk tensors
AtCalChunks ==
    1..3

\* key positions of the supplied per-position tensors
AtCalPositions ==
    1..4

AtCalChunkSizes ==
    {1, 2}

AtCalDecomp ==
    {2}

\* self.head_dim of the module
AtCalHeadDim ==
    4

\* the square root of config.rope_theta (rope_theta = 4)
RopeThetaSqrt ==
    2

\* config.max_position_embeddings
MaxPositionEmbeddings ==
    2

\* config.rope_scaling["factor"]
RopeScalingFactor ==
    2

\* cos and sin of the angle t >= 0: the angle is rounded to the nearest of four
\* angles whose cosine and sine are rational (0, atan 3/4, atan 4/3, pi/2)
CosSin(t) ==
    IF RLt(t, Rat(1, 3)) THEN <<RInt(1), Zero>>
    ELSE IF RLt(t, Rat(4, 5)) THEN <<Rat(4, 5), Rat(3, 5)>>
    ELSE IF RLt(t, Rat(5, 4)) THEN <<Rat(3, 5), Rat(4, 5)>>
    ELSE <<Zero, RInt(1)>>

\* inv_freq = 1.0 / (base ** (arange(0, dim, 2) / dim)) for dim = 4 and
\* base = rope_theta * k ** (dim / (dim - 2))
InvFreq(k) ==
    << RInt(1), RDiv(RInt(1), RMul(RInt(RopeThetaSqrt), k)) >>

\* _set_cos_sin_cache(seq_len) of LlamaRotaryEmbedding and of
\* LlamaDynamicNTKScalingRotaryEmbedding; cos_sin_cached[p + 1][ch] is the pair
\* (cos_cached, sin_cached) of position p
SetCosSinCache(rot, seq_len) ==
    LET inv_freq ==
            IF rot.type = "dynamic" /\ seq_len > rot.max_position_embeddings
                THEN InvFreq(RSub(RDiv(RInt(rot.scaling_factor * seq_len),
                                       RInt(rot.max_position_embeddings)),
                                  RInt(rot.scaling_factor - 1)))
                ELSE rot.inv_freq
    IN  [rot EXCEPT !.max_seq_len_cached = seq_len,
                    !.inv_freq = inv_freq,
                    !.cos_sin_cached = [p \in 1..seq_len |-> [ch \in 1..rot.dim |->
                        CosSin(RMul(RInt(p - 1),
                                    inv_freq[((ch - 1) % (rot.dim \div 2)) + 1]))]]]

\* the rotary embedding _init_rope builds
RotaryInit(type) ==
    SetCosSinCache([ type |-> type, dim |-> AtCalHeadDim,
                     max_position_embeddings |-> MaxPositionEmbeddings,
                     scaling_factor |-> RopeScalingFactor,
                     max_seq_len_cached |-> 0, inv_freq |-> InvFreq(RInt(1)),
                     cos_sin_cached |-> <<>> ],
                   MaxPositionEmbeddings)

\* a faulty forward that rebuilds the cache at every call
RotaryForwardAlways(rot, seq_len) ==
    SetCosSinCache(rot, seq_len)

\* the rotary embedding after forward(x, seq_len)
RotaryForward(rot, seq_len) ==
    IF seq_len > rot.max_seq_len_cached THEN SetCosSinCache(rot, seq_len) ELSE rot

\* rotate_half(x)
RotateHalf(row) ==
    LET half == Len(row) \div 2
    IN  [ch \in DOMAIN row |->
            IF ch <= half THEN RSub(Zero, row[ch + half]) ELSE row[ch - half]]

\* (x * cos) + (rotate_half(x) * sin) for one position
ApplyRotary(row, cos_sin) ==
    [ch \in DOMAIN row |->
        RAdd(RMul(row[ch], cos_sin[ch][1]), RMul(RotateHalf(row)[ch], cos_sin[ch][2]))]

\* what a caller may assign to the calibration fields (bsz * num_heads = 1)
AtCalValue(name, decomp_factor, q_tmax) ==
    IF name = "k_ch_bias" THEN << <<RInt(64), RInt(-32), RInt(0), RInt(16)>> >>
    ELSE IF name = "q_ch_bias"
        THEN << [c \in AtCalChunks |-> <<RInt(256 * c), RInt(-256), RInt(0), RInt(128)>>] >>
    ELSE IF name = "k_scale" THEN << [j \in AtCalPositions |-> RInt(24 + 8 * j)] >>
    ELSE IF name = "v_scale" THEN << <<RInt(16), RInt(24), RInt(8), RInt(32)>> >>
    ELSE IF name = "q_tmax" THEN << [c \in AtCalChunks |-> q_tmax] >>
    ELSE IF name = "s_tmax" THEN << [c \in AtCalChunks |-> RInt(1)] >>
    ELSE IF name = "q_group_index"
        THEN << [c \in AtCalChunks |-> [ch \in 1..AtCalHeadDim |-> (c + ch) % decomp_factor]] >>
    ELSE << [c \in AtCalChunks |-> [j \in AtCalPositions |-> (c + j) % decomp_factor]] >>

AtCalNames ==
    {"k_ch_bias", "q_ch_bias", "q_tmax", "s_tmax", "q_group_index", "s_group_index",
     "k_scale", "v_scale"}

\* the calibration fields a caller assigns together, and the supplied q_tmax
AtCalProfiles ==
    { [items |-> {}, q_tmax |-> Zero],
      [items |-> AtCalNames, q_tmax |-> RInt(4096)],
      [items |-> {"q_tmax"}, q_tmax |-> RInt(4096)],
      [items |-> {"q_tmax"}, q_tmax |-> RInt(512)],
      [items |-> {"q_group_index", "s_group_index"}, q_tmax |-> Zero],
      [items |-> {"k_ch_bias", "q_ch_bias", "k_scale", "v_scale", "s_tmax"}, q_tmax |-> Zero] }

\* the calibration fields of a module
AtCalibration(self) ==
    [name \in AtCalNames |-> self[name]]

\* the module after __init__ and the caller's assignments
AtCalSelf(quant_mha, chunk_size, decomp_factor, profile, rope) ==
    LET base == AtSelf(quant_mha, chunk_size, decomp_factor, 1)
    IN  [f \in DOMAIN base \cup {"rotary_emb"} |->
            IF f = "rotary_emb" THEN RotaryInit(rope)
            ELSE IF f = "head_dim" THEN AtCalHeadDim
            ELSE IF f \in profile.items
                THEN AtCalValue(f, decomp_factor, profile.q_tmax)
                ELSE base[f]]

\* the arguments of a call: the projections of hidden_states, shaped
\* [b*h][row][channel], the cache and the attention mask
AtCalInput(q_proj, k_proj, v_proj, past_key_value, mask) ==
    [ bsz |-> 1, q_len |-> Len(q_proj),
      q_proj |-> << q_proj >>, k_proj |-> << k_proj >>, v_proj |-> << v_proj >>,
      past_key_value |-> past_key_value,
      attention_mask |-> mask ]

AtCalQueryRow(k) ==
    IF k = 1 THEN <<RInt(2560), RInt(-640), RInt(1280), RInt(0)>>
    ELSE IF k = 2 THEN <<RInt(-1280), RInt(1920), RInt(0), RInt(640)>>
    ELSE <<RInt(640), RInt(2560), RInt(-640), RInt(1280)>>

AtCalKeyRow(k) ==
    IF k = 1 THEN <<RInt(80), RInt(-160), RInt(40), RInt(0)>>
    ELSE IF k = 2 THEN <<RInt(-80), RInt(40), RInt(160), RInt(-40)>>
    ELSE <<RInt(240), RInt(0), RInt(-80), RInt(120)>>

AtCalValueRow(k) ==
    IF k = 1 THEN <<RInt(112), RInt(-16), RInt(48), RInt(0)>>
    ELSE IF k = 2 THEN <<RInt(-48), RInt(80), RInt(0), RInt(-96)>>
    ELSE <<RInt(0), RInt(-112), RInt(64), RInt(16)>>

\* a cache of one position: (key_states, value_states) of an earlier step
AtCalPast ==
    << << <<AtCalKeyRow(3)>> >>, << <<AtCalValueRow(3)>> >> >>

\* the inputs of the calls
AtCalInputs ==
    { AtCalInput(<<AtCalQueryRow(1)>>, <<AtCalKeyRow(1)>>, <<AtCalValueRow(1)>>, None,
                 "causal"),
      AtCalInput(<<AtCalQueryRow(1), AtCalQueryRow(2)>>, <<AtCalKeyRow(1), AtCalKeyRow(2)>>,
                 <<AtCalValueRow(1), AtCalValueRow(2)>>, None, "causal"),
      AtCalInput(<<AtCalQueryRow(3), AtCalQueryRow(1)>>, <<AtCalKeyRow(2), AtCalKeyRow(1)>>,
                 <<AtCalValueRow(2), AtCalValueRow(1)>>, AtCalPast, "skewed") }

\* the arguments forward was called with
AtArguments(in) ==
    [f \in {"bsz", "q_len", "q_proj", "k_proj", "v_proj", "past_key_value",
            "attention_mask"} |-> in[f]]

AtCalRopes ==
    {"default", "dynamic"}

InitAttnCal ==
    /\ LmAgainIdle
    /\ AtLocalIdle
    /\ RkIdle
    /\ KvIdle
    /\ YIdle
    /\ PrimIdle
    /\ LmIdle
    /\ divisors = {}
    /\ at_pc = "rotary"
    /\ at_self \in { AtCalSelf(TRUE, cs, df, profile, rope) :
                        cs \in AtCalChunkSizes, df \in AtCalDecomp, profile \in AtCalProfiles,
                        rope \in AtCalRopes }
                   \cup { AtCalSelf(FALSE, cs, df, profile, rope) :
                        cs \in AtCalChunkSizes, df \in AtCalDecomp,
                        profile \in AtCalProfiles, rope \in AtCalRopes }
    /\ at_supplied = AtCalibration(at_self)
    /\ at_calls = <<>>
    /\ at_in \in AtCalInputs
    /\ at_k_ch_bias = <<>>
    /\ at_K = <<>>
    /\ at_chunks = -1
    /\ at_pad_num = -1
    /\ at_hidden_chunks = <<>>
    /\ at_q_ch_bias = <<>>
    /\ at_o_ch_bias = <<>>
    /\ at_q_tmax = <<>>
    /\ at_q_cmax = <<>>
    /\ at_s_tmax = <<>>
    /\ at_s_cmax = <<>>
    /\ at_thresholds = <<>>
    /\ at_count = <<>>
    /\ at_i = 0
    /\ at_result = <<>>
    /\ at_attn_weights = <<>>
    /\ at_V = <<>>
    /\ at_attn_output = <<>>

\* kv_seq_len, the rotary embedding of the new queries and keys, the
\* concatenation with the cache, repeat_kv with one group, and the division of
\* the queries by math.sqrt(head_dim)
AtRotary ==
    /\ at_pc = "rotary"
    /\ LET past == at_in.past_key_value
           past_len == IF past = None THEN 0 ELSE Len(past[1][1])
           kv_seq_len == at_in.q_len + past_len
           rot == RotaryForward(at_self.rotary_emb, kv_seq_len)
           q == [b \in 1..AtBH |-> [r \in 1..at_in.q_len |->
                    ApplyRotary(at_in.q_proj[b][r], rot.cos_sin_cached[past_len + r])]]
           k == [b \in 1..AtBH |-> [r \in 1..at_in.q_len |->
                    ApplyRotary(at_in.k_proj[b][r], rot.cos_sin_cached[past_len + r])]]
           shaped == [ kv_seq_len |-> kv_seq_len,
                       query_states |-> [b \in 1..AtBH |-> [r \in 1..at_in.q_len |->
                           [ch \in 1..at_self.head_dim |-> RDiv(q[b][r][ch], RInt(2))]]],
                       key_states |-> [b \in 1..AtBH |->
                           IF past = None THEN k[b] ELSE past[1][b] \o k[b]],
                       value_states |-> [b \in 1..AtBH |->
                           IF past = None THEN at_in.v_proj[b]
                                          ELSE past[2][b] \o at_in.v_proj[b]] ]
       IN  /\ at_in' = [f \in DOMAIN at_in \cup DOMAIN shaped |->
                           IF f \in DOMAIN shaped THEN shaped[f] ELSE at_in[f]]
           /\ at_self' = [at_self EXCEPT !.rotary_emb = rot]
    /\ at_pc' = "start"
    /\ UNCHANGED <<at_key_vars, at_chunk_vars, at_q_vars, at_s_vars, at_loop_vars,
                   at_attn_weights, at_attn_output>>
    /\ UNCHANGED <<x_vars, p_vars, lm_vars, divisors>>

\* the positions at which forward has returned or raised
AtTerminal ==
    {"done", "empty_reduce_error", "zero_scale_assert", "chunks_assert", "coverage_assert",
     "nan_result"}

\* what a call gives its caller: how it ended, the scores it gave the softmax, the
\* attention probabilities, attn_output and past_key_value
AtOutcome ==
    [ pc |-> at_pc, scores |-> at_scores, attn_weights |-> at_attn_weights,
      attn_output |-> at_attn_output, past_key_value |-> at_in.past_key_value ]

\* the caller calls forward again on the same module with another input; the
\* module keeps its fields, the locals of the finished call are gone
AtNextCall ==
    /\ at_pc \in AtTerminal
    /\ Len(at_calls) + 1 < MaxCalls
    /\ at_calls' = Append(at_calls, [in |-> AtArguments(at_in), out |-> AtOutcome])
    /\ at_in' \in AtCalInputs
    /\ at_pc' = "rotary"
    /\ at_k_ch_bias' = <<>>
    /\ at_K' = <<>>
    /\ at_chunks' = -1
    /\ at_pad_num' = -1
    /\ at_hidden_chunks' = <<>>
    /\ at_q_ch_bias' = <<>>
    /\ at_o_ch_bias' = <<>>
    /\ at_q_tmax' = <<>>
    /\ at_q_cmax' = <<>>
    /\ at_s_tmax' = <<>>
    /\ at_s_cmax' = <<>>
    /\ at_thresholds' = <<>>
    /\ at_count' = <<>>
    /\ at_i' = 0
    /\ at_result' = <<>>
    /\ at_attn_weights' = <<>>
    /\ at_V' = <<>>
    /\ at_attn_output' = <<>>
    /\ at_k_scale' = <<>>
    /\ at_v_scale' = <<>>
    /\ at_scores' = <<>>
    /\ UNCHANGED <<at_self, at_supplied, divisors>>
    /\ UNCHANGED <<p_vars, lm_vars, lm_again_vars, rk_vars, kv_vars, y_vars>>

NextAttnCal ==
    \/ AtRotary
    \/ NextAttn
    \/ AtNextCall

SpecAttnCal ==
    InitAttnCal /\ [][NextAttnCal]_vars

(***************************************************************************)
(* repeat_kv(hidden_states, n_rep).  hidden_states[batch][head][position]   *)
(* holds the identity of the head_dim vector at that place.                *)
(***************************************************************************)
\* largest num_key_value_heads drawn
MaxKvHeads ==
    2

\* largest n_rep drawn
MaxRep ==
    3

\* largest slen drawn
MaxSlen ==
    2

RkBatches ==
    {1, 2}

RkVectors ==
    {1, 2}

\* hidden_states[:, :, None, :, :].expand(batch, num_key_value_heads, n_rep, slen, head_dim)
Expand(hidden_states, n_rep) ==
    [b \in DOMAIN hidden_states |-> [h \in DOMAIN hidden_states[b] |->
        [k \in 1..n_rep |-> hidden_states[b][h]]]]

\* a reshape that would merge the two head dimensions with the repetition outermost
MergeHeadsTiled(expanded, num_key_value_heads, n_rep) ==
    [b \in DOMAIN expanded |-> [g \in 1..(num_key_value_heads * n_rep) |->
        expanded[b][((g - 1) % num_key_value_heads) + 1]
                   [((g - 1) \div num_key_value_heads) + 1]]]

\* reshape(batch, num_key_value_heads * n_rep, slen, head_dim) of the expanded
\* tensor: row-major, the repetition is the inner of the two merged dimensions
MergeHeads(expanded, num_key_value_heads, n_rep) ==
    [b \in DOMAIN expanded |-> [g \in 1..(num_key_value_heads * n_rep) |->
        expanded[b][((g - 1) \div n_rep) + 1][((g - 1) % n_rep) + 1]]]

repeat_kv(hidden_states, n_rep) ==
    IF n_rep = 1
        THEN hidden_states
        ELSE MergeHeads(Expand(hidden_states, n_rep), Len(hidden_states[1]), n_rep)

InitRepeatKv ==
    /\ PrimIdle
    /\ LmIdle
    /\ AtIdle
    /\ divisors = {}
    /\ LmAgainIdle
    /\ AtLocalIdle
    /\ AtCallIdle
    /\ KvIdle
    /\ YIdle
    /\ rk_pc = "start"
    /\ \E batch \in RkBatches, heads \in 1..MaxKvHeads, slen \in 0..MaxSlen :
          rk_hidden_states \in [1..batch -> [1..heads -> [1..slen -> RkVectors]]]
    /\ rk_n_rep \in 1..MaxRep
    /\ rk_out = <<>>

RepeatKv ==
    /\ rk_pc = "start"
    /\ rk_out' = repeat_kv(rk_hidden_states, rk_n_rep)
    /\ rk_pc' = "done"
    /\ UNCHANGED <<rk_hidden_states, rk_n_rep>>
    /\ UNCHANGED <<p_vars, lm_vars, at_vars, divisors, lm_again_vars, at_local_vars,
                   at_call_vars, kv_vars, y_vars>>

NextRepeatKv ==
    RepeatKv

SpecRepeatKv ==
    InitRepeatKv /\ [][NextRepeatKv]_vars

(***************************************************************************)
(* The key/value cache across decoding steps: LlamaModel.forward, its loop  *)
(* over the decoder layers, and the attention layer each decoder layer      *)
(* holds.  A token is its position in the sequence; the key states of layer *)
(* l are the sequence of <<"k", token>> and its value states the sequence   *)
(* of <<"v", token>>.  A layer's cache is the tuple <<keys, values>>.       *)
(***************************************************************************)
\* largest config.num_hidden_layers drawn
MaxLayers ==
    2

\* largest number of tokens in one forward call
MaxNewTokens ==
    2

\* largest number of forward calls in a row
MaxSteps ==
    3

\* largest cache length the first caller supplies
MaxSuppliedPast ==
    2

KeyStates(tokens) ==
    [n \in 1..Len(tokens) |-> <<"k", tokens[n]>>]

ValueStates(tokens) ==
    [n \in 1..Len(tokens) |-> <<"v", tokens[n]>>]

Tokens(first, count) ==
    [n \in 1..count |-> first + n - 1]

\* past_key_values as the docstring describes it: one (key, value) per layer
SuppliedCache(layers, length) ==
    [l \in 1..layers |-> <<KeyStates(Tokens(1, length)), ValueStates(Tokens(1, length))>>]

\* LlamaFlashAttention2.forward: the cache it returns
FlashPresent(past_key_value, tokens, use_cache) ==
    LET key_states   == IF past_key_value # None
                            THEN past_key_value[1] \o KeyStates(tokens)
                            ELSE KeyStates(tokens)
        value_states == IF past_key_value # None
                            THEN past_key_value[2] \o ValueStates(tokens)
                            ELSE ValueStates(tokens)
    IN  IF use_cache THEN <<key_states, value_states>> ELSE None

\* LlamaAttention_Tender_Eval.forward: key_states after the concatenation with the cache
TenderKeyStates(past_key_value, tokens) ==
    IF past_key_value # None
        THEN past_key_value[1] \o KeyStates(tokens)
        ELSE KeyStates(tokens)

\* LlamaAttention_Tender_Eval.forward: the third element of what it returns
TenderPresent(past_key_value, tokens, use_cache) ==
    past_key_value

\* LlamaDecoderLayer.__init__ chooses the attention class, forward calls it
SelfAttnPresent(config, past_key_value, tokens) ==
    IF config.flash_attn_2_enabled
        THEN FlashPresent(past_key_value, tokens, config.use_cache)
        ELSE TenderPresent(past_key_value, tokens, config.use_cache)

InitCache ==
    /\ PrimIdle
    /\ LmIdle
    /\ AtIdle
    /\ divisors = {}
    /\ LmAgainIdle
    /\ AtLocalIdle
    /\ AtCallIdle
    /\ RkIdle
    /\ YIdle
    /\ kv_pc = "forward"
    /\ \E layers \in 1..MaxLayers, use_cache \in BOOLEAN, flash \in BOOLEAN :
          kv_config = [num_hidden_layers |-> layers, use_cache |-> use_cache,
                       flash_attn_2_enabled |-> flash]
    /\ \E length \in 0..MaxSuppliedPast :
          /\ kv_past_key_values
                 = IF length = 0 THEN None
                   ELSE SuppliedCache(kv_config.num_hidden_layers, length)
          /\ kv_seen = Tokens(1, length)
    /\ \E count \in 1..MaxNewTokens : kv_input = Tokens(Len(kv_seen) + 1, count)
    /\ kv_idx = 0
    /\ kv_key_states = <<>>
    /\ kv_next_decoder_cache = <<>>
    /\ kv_steps = 0

\* LlamaModel.forward up to the loop over the layers
KvModelStart ==
    /\ kv_pc = "forward"
    /\ IF kv_past_key_values # None /\ kv_past_key_values[1] = None
           THEN \* past_key_values[0][0] with past_key_values[0] being None
                /\ kv_pc' = "TypeError"
                /\ UNCHANGED <<kv_idx, kv_next_decoder_cache>>
           ELSE /\ kv_pc' = "layers"
                /\ kv_idx' = 0
                /\ kv_next_decoder_cache' = IF kv_config.use_cache THEN <<>> ELSE None
    /\ UNCHANGED <<kv_config, kv_past_key_values, kv_input, kv_key_states, kv_seen, kv_steps>>
    /\ UNCHANGED <<p_vars, lm_vars, at_vars, divisors, lm_again_vars, at_local_vars,
                   at_call_vars, rk_vars, y_vars>>

\* one iteration of the loop: the decoder layer, its attention, the append
KvLayer ==
    /\ kv_pc = "layers"
    /\ kv_idx < kv_config.num_hidden_layers
    /\ LET past_key_value    == IF kv_past_key_values # None
                                    THEN kv_past_key_values[kv_idx + 1]
                                    ELSE None
           present_key_value == SelfAttnPresent(kv_config, past_key_value, kv_input)
       IN  /\ kv_key_states' = TenderKeyStates(past_key_value, kv_input)
           /\ kv_next_decoder_cache'
                  = IF kv_config.use_cache
                        THEN Append(kv_next_decoder_cache, present_key_value)
                        ELSE kv_next_decoder_cache
    /\ kv_idx' = kv_idx + 1
    /\ UNCHANGED <<kv_pc, kv_config, kv_past_key_values, kv_input, kv_seen, kv_steps>>
    /\ UNCHANGED <<p_vars, lm_vars, at_vars, divisors, lm_again_vars, at_local_vars,
                   at_call_vars, rk_vars, y_vars>>

\* after the loop: next_cache = next_decoder_cache if use_cache else None
KvModelReturn ==
    /\ kv_pc = "layers"
    /\ kv_idx = kv_config.num_hidden_layers
    /\ kv_next_decoder_cache' = IF kv_config.use_cache THEN kv_next_decoder_cache ELSE None
    /\ kv_seen' = kv_seen \o kv_input
    /\ kv_steps' = kv_steps + 1
    /\ kv_pc' = "returned"
    /\ UNCHANGED <<kv_config, kv_past_key_values, kv_input, kv_idx, kv_key_states>>
    /\ UNCHANGED <<p_vars, lm_vars, at_vars, divisors, lm_again_vars, at_local_vars,
                   at_call_vars, rk_vars, y_vars>>

\* the caller passes the returned past_key_values to the next forward call
KvFeedBack ==
    /\ kv_pc = "returned"
    /\ kv_steps < MaxSteps
    /\ kv_past_key_values' = kv_next_decoder_cache
    /\ \E count \in 1..MaxNewTokens : kv_input' = Tokens(Len(kv_seen) + 1, count)
    /\ kv_pc' = "forward"
    /\ kv_idx' = 0
    /\ kv_key_states' = <<>>
    /\ kv_next_decoder_cache' = <<>>
    /\ UNCHANGED <<kv_config, kv_seen, kv_steps>>
    /\ UNCHANGED <<p_vars, lm_vars, at_vars, divisors, lm_again_vars, at_local_vars,
                   at_call_vars, rk_vars, y_vars>>

NextCache ==
    \/ KvModelStart
    \/ KvLayer
    \/ KvModelReturn
    \/ KvFeedBack

SpecCache ==
    InitCache /\ [][NextCache]_vars

(***************************************************************************)
(* The query path's bias removal ("Acts normalize") on one head, computed   *)
(* in the tensors' dtype: chunking with zero padding, q_ch_bias, and         *)
(* hidden_chunks -= q_ch_bias.  The attention model above computes the same  *)
(* lines in exact arithmetic; here every operation rounds its result to the  *)
(* dtype (bits = 0: exact).                                                  *)
(***************************************************************************)
\* largest tgt_len drawn
MaxBiasRows ==
    3

\* largest chunk_size drawn
MaxBiasChunkSize ==
    2

\* query values the dtype holds exactly, one channel per row
QbValues ==
    { <<-3, 1>>, <<-129, 128>>, <<-1, 2>>, <<0, 1>>, <<129, 128>>, <<5, 2>>, <<3, 1>> }

QbDtypeBits ==
    {0, BFloat16Bits}

\* a faulty bias: ch_max + ch_min, not halved
ChannelBiasDtypeSum(t, dim, bits) ==
    [ch \in 1..dim |->
        ToDtype(RAdd(SeqMax([r \in DOMAIN t |-> t[r][ch]]),
                     SeqMin([r \in DOMAIN t |-> t[r][ch]])), bits)]

\* ch_max, ch_min over dim 2 of one chunk; q_ch_bias = torch.div(ch_max + ch_min, 2)
ChannelBiasDtype(t, dim, bits) ==
    [ch \in 1..dim |->
        ToDtype(RDiv(ToDtype(RAdd(SeqMax([r \in DOMAIN t |-> t[r][ch]]),
                                  SeqMin([r \in DOMAIN t |-> t[r][ch]])), bits),
                     RInt(2)), bits)]

\* hidden_chunks -= q_ch_bias, one row
SubRowDtype(row, bias, bits) ==
    [ch \in DOMAIN row |-> ToDtype(RSub(row[ch], bias[ch]), bits)]

InitBias ==
    /\ PrimIdle
    /\ LmIdle
    /\ AtIdle
    /\ divisors = {}
    /\ LmAgainIdle
    /\ AtLocalIdle
    /\ AtCallIdle
    /\ RkIdle
    /\ KvIdle
    /\ DrIdle
    /\ RoIdle
    /\ BpIdle
    /\ qb_pc = "start"
    /\ \E tgt_len \in 1..MaxBiasRows, chunk_size \in 1..MaxBiasChunkSize,
          bits \in QbDtypeBits :
          \E rows \in [1..tgt_len -> QbValues] :
              qb_in = [query_states |-> [r \in 1..tgt_len |-> <<rows[r]>>],
                       chunk_size |-> chunk_size, head_dim |-> 1, bits |-> bits]
    /\ qb_hidden_chunks = <<>>
    /\ qb_q_ch_bias = <<>>
    /\ qb_out = <<>>

\* chunks, padding, reshape
QbChunk ==
    /\ qb_pc = "start"
    /\ LET tgt_len == Len(qb_in.query_states)
           chunks == CeilDiv(tgt_len, qb_in.chunk_size)
           pad_num == chunks * qb_in.chunk_size - tgt_len
       IN  qb_hidden_chunks' = ToChunks(PadRows(qb_in.query_states, pad_num, qb_in.head_dim),
                                        chunks, qb_in.chunk_size)
    /\ qb_pc' = "chunked"
    /\ UNCHANGED <<qb_in, qb_q_ch_bias, qb_out>>
    /\ UNCHANGED <<p_vars, lm_vars, at_vars, divisors, lm_again_vars, at_local_vars,
                   at_call_vars, rk_vars, kv_vars, dr_vars, ro_vars, bp_vars>>

\* q_ch_bias with self.q_ch_bias None
QbBias ==
    /\ qb_pc = "chunked"
    /\ qb_q_ch_bias' = [c \in DOMAIN qb_hidden_chunks |->
                           ChannelBiasDtype(qb_hidden_chunks[c], qb_in.head_dim, qb_in.bits)]
    /\ qb_pc' = "biased"
    /\ UNCHANGED <<qb_in, qb_hidden_chunks, qb_out>>
    /\ UNCHANGED <<p_vars, lm_vars, at_vars, divisors, lm_again_vars, at_local_vars,
                   at_call_vars, rk_vars, kv_vars, dr_vars, ro_vars, bp_vars>>

\* hidden_chunks -= q_ch_bias
QbSubtract ==
    /\ qb_pc = "biased"
    /\ qb_out' = [c \in DOMAIN qb_hidden_chunks |-> [r \in DOMAIN qb_hidden_chunks[c] |->
                     SubRowDtype(qb_hidden_chunks[c][r], qb_q_ch_bias[c], qb_in.bits)]]
    /\ qb_pc' = "subtracted"
    /\ UNCHANGED <<qb_in, qb_hidden_chunks, qb_q_ch_bias>>
    /\ UNCHANGED <<p_vars, lm_vars, at_vars, divisors, lm_again_vars, at_local_vars,
                   at_call_vars, rk_vars, kv_vars, dr_vars, ro_vars, bp_vars>>

NextBias ==
    \/ QbChunk
    \/ QbBias
    \/ QbSubtract

SpecBias ==
    InitBias /\ [][NextBias]_vars

(***************************************************************************)
(* The two band-boundary policies side by side on one channel of one chunk: *)
(* the masks of the LM head and the score path (closed top) and of the      *)
(* query path (inclusive), for a tmax computed on the fly (cmax <= tmax) or  *)
(* supplied (any cmax).                                                      *)
(***************************************************************************)
\* per-chunk maxima drawn, zero included
BpTmaxSet ==
    { RInt(0), RInt(3), RInt(8), Rat(5, 2) }

\* per-channel maxima drawn
BpCmaxSet ==
    { RInt(0), Rat(1, 2), RInt(1), Rat(5, 4), Rat(3, 2), RInt(2), Rat(5, 2), RInt(3),
      RInt(4), RInt(5), RInt(8), RInt(9) }

InitPolicy ==
    /\ PrimIdle
    /\ LmIdle
    /\ AtIdle
    /\ divisors = {}
    /\ LmAgainIdle
    /\ AtLocalIdle
    /\ AtCallIdle
    /\ RkIdle
    /\ KvIdle
    /\ QbIdle
    /\ DrIdle
    /\ RoIdle
    /\ bp_pc = "start"
    /\ \E decomp_factor \in 1..MaxDecomp, tmax \in BpTmaxSet, cmax \in BpCmaxSet :
          bp_in = [decomp_factor |-> decomp_factor, tmax |-> tmax, cmax |-> cmax]
    /\ bp_thresholds = <<>>
    /\ bp_bands = <<>>

\* the loop that fills thresholds
BpThresholds ==
    /\ bp_pc = "start"
    /\ bp_thresholds' = Thresholds(<<bp_in.tmax>>, bp_in.decomp_factor)
    /\ bp_pc' = "thresholds"
    /\ UNCHANGED <<bp_in, bp_bands>>
    /\ UNCHANGED <<p_vars, lm_vars, at_vars, divisors, lm_again_vars, at_local_vars,
                   at_call_vars, rk_vars, kv_vars, qb_vars, dr_vars, ro_vars>>

\* the band loops' masks for the channel, under either policy
BpMasks ==
    /\ bp_pc = "thresholds"
    /\ bp_bands' =
           [closed_top |-> {i \in 0..(bp_in.decomp_factor - 1) :
                               MaskClosedTop(i, bp_in.decomp_factor, bp_in.cmax,
                                             bp_thresholds, 1)},
            inclusive  |-> {i \in 0..(bp_in.decomp_factor - 1) :
                               MaskInclusive(i, bp_in.decomp_factor, bp_in.cmax,
                                             bp_thresholds, 1)}]
    /\ bp_pc' = "masked"
    /\ UNCHANGED <<bp_in, bp_thresholds>>
    /\ UNCHANGED <<p_vars, lm_vars, at_vars, divisors, lm_again_vars, at_local_vars,
                   at_call_vars, rk_vars, kv_vars, qb_vars, dr_vars, ro_vars>>

NextPolicy ==
    \/ BpThresholds
    \/ BpMasks

SpecPolicy ==
    InitPolicy /\ [][NextPolicy]_vars

(***************************************************************************)
(* Claims about the primitive (checked under SpecPrim).                    *)
(***************************************************************************)
\* the integers within 1/2 of r, the even one when there are two
NearestTiesEven(r) ==
    CHOOSE n \in -(4 * MaxHalves + 4 * Pow2(MaxBits))..(4 * MaxHalves + 4 * Pow2(MaxBits)) :
        LET e == RAbs(RSub(r, RInt(n)))
        IN  \/ RLt(e, Rat(1, 2))
            \/ e = Rat(1, 2) /\ n % 2 = 0

\* x / s lies within half a step of the signed range of q_bits
InQuantRange(x, s, q_bits) ==
    /\ RLe(RSub(RInt(-Pow2(q_bits - 1)), Rat(1, 2)), RDiv(x, s))
    /\ RLe(RDiv(x, s), RAdd(RInt(Pow2(q_bits - 1) - 1), Rat(1, 2)))

RoundTripDone ==
    p_pc = "dequantized" /\ p_pass = 1

\* C2 as stated: after sym_dequant(sym_quant(x, s, bits), s), for every non-zero
\* scale and bits >= 2, every element differs from x by at most s/2.
C2_Original ==
    (RoundTripDone /\ p_bits >= 2) =>
        \A i \in DOMAIN p_x0 :
            RLe(RAbs(RSub(p_out[i], p_x0[i])), RDiv(p_scale[i], RInt(2)))

\* C2 amended: for every bits >= 2 and every non-zero scale s, with
\* e = max(|s|, 1e-9) the divisor sym_quant uses, when x/e lies within half a step
\* of the signed range [-(2^(bits-1)), 2^(bits-1)-1] (the clamp does not saturate)
\* the round trip differs from x * s/e by at most |s|/2; so for s >= 1e-9 it
\* differs from x by at most s/2.
C2_RoundTripError ==
    (RoundTripDone /\ p_bits >= 2) =>
        \A i \in DOMAIN p_x0 :
            LET e == RMax(RAbs(p_scale[i]), MinScale)
            IN  InQuantRange(p_x0[i], e, p_bits) =>
                    /\ RLe(RAbs(RSub(p_out[i], RMul(p_x0[i], RDiv(p_scale[i], e)))),
                           RDiv(RAbs(p_scale[i]), RInt(2)))
                    /\ RLe(MinScale, p_scale[i]) =>
                           RLe(RAbs(RSub(p_out[i], p_x0[i])), RDiv(p_scale[i], RInt(2)))

\* a tie: the round trip lands exactly s/2 away from x
C2_Witness ==
    /\ RoundTripDone
    /\ p_bits >= 2
    /\ \E i \in DOMAIN p_x0 :
          /\ RLe(MinScale, p_scale[i])
          /\ InQuantRange(p_x0[i], p_scale[i], p_bits)
          /\ RAbs(RSub(p_out[i], p_x0[i])) = RDiv(p_scale[i], RInt(2))

\* C4: sym_quant fails with the zero-scale assertion exactly when some element
\* of the scale tensor is zero.
C4_ZeroScaleAssert ==
    (p_pc # "start") =>
        ((p_pc = "zero_scale_assert") <=> (\E i \in DOMAIN p_scale : p_scale[i] = Zero))

C4_Witness ==
    /\ p_pc = "zero_scale_assert"
    /\ \E i \in DOMAIN p_scale : p_scale[i] = Zero
    /\ \E i \in DOMAIN p_scale : p_scale[i] # Zero

\* C6 as stated: every element of sym_quant's result is an integer of the signed
\* range equal to round-half-even of x/|s| clamped to that range.
C6_Original ==
    (p_pc = "quantized") =>
        \A i \in DOMAIN p_q :
            /\ p_q[i] \in -Pow2(p_bits - 1)..(Pow2(p_bits - 1) - 1)
            /\ p_q[i] = ClampInt(NearestTiesEven(RDiv(p_fp[i], RAbs(p_scale[i]))),
                                 -Pow2(p_bits - 1), Pow2(p_bits - 1) - 1)

\* C6 amended: every element of sym_quant's result is an integer of the signed
\* range equal to round-half-even of x / max(|s|, 1e-9) clamped to that range.
C6_QuantValue ==
    (p_pc = "quantized") =>
        \A i \in DOMAIN p_q :
            /\ p_q[i] \in -Pow2(p_bits - 1)..(Pow2(p_bits - 1) - 1)
            /\ p_q[i] = ClampInt(NearestTiesEven(RDiv(p_fp[i], RMax(RAbs(p_scale[i]), RInt(1)))),
                                 -Pow2(p_bits - 1), Pow2(p_bits - 1) - 1)

\* a tie rounded to the even neighbour, a saturated element, a scale under 1e-9
C6_Witness ==
    /\ p_pc = "quantized"
    /\ Len(p_q) = 2
    /\ RLt(RAbs(p_scale[1]), MinScale)
    /\ p_fp[1] = Rat(3, 2) /\ p_q[1] = 2
    /\ p_q[2] = -Pow2(p_bits - 1)
    /\ RLt(RDiv(p_fp[2], RAbs(p_scale[2])), RInt(-Pow2(p_bits - 1) - 1))

\* C7 as stated: the round trip is idempotent for every x, non-zero s and bits:
\* a second round trip with the same scale returns the result of the first.
C7_Original ==
    (p_pc = "dequantized" /\ p_pass = 2) => p_out = p_first

(***************************************************************************)
(* Claims about LmHeadTender.forward (checked under SpecLm).               *)
(***************************************************************************)
LmChunkIsZero(c) ==
    \A r \in DOMAIN lm_hidden_chunks[c] : \A ch \in DOMAIN lm_hidden_chunks[c][r] :
        lm_hidden_chunks[c][r][ch] = Zero

LmFailed ==
    lm_pc \in {"zero_scale_assert", "chunks_assert", "coverage_assert"}

\* C3 as stated: an all-zero input chunk passed through the decomposition
\* quantizer raises no error and is reconstructed as an all-zero chunk.
C3_Original ==
    \A c \in DOMAIN lm_hidden_chunks :
        LmChunkIsZero(c) =>
            /\ ~LmFailed
            /\ lm_pc \in {"covered", "done"} =>
                   \A r \in DOMAIN lm_result[c] : \A ch \in DOMAIN lm_result[c][r] :
                       lm_result[c][r][ch] = Zero

LmRows ==
    Len(lm_hidden_states)

\* C8: the output has the input's row count, the rows dropped are exactly the
\* chunks * chunk_size - rows zero rows appended, the reconstruction has the
\* input's channel count, and output row r is the product of reconstructed row r,
\* which stands at the position of input row r.
C8_ShapeAndTrim ==
    (lm_pc = "done") =>
        LET flat_in == FromChunks(lm_hidden_chunks, lm_chunks, lm_chunk_size)
            flat_out == FromChunks(lm_result, lm_chunks, lm_chunk_size)
            full == MatMul(flat_out, lm_Wl, LmVocab)
        IN  /\ Len(lm_logits) = LmRows
            /\ LmRows = lm_bsz * lm_orig_tgt_len
            /\ Len(flat_out) - Len(lm_logits) = lm_chunks * lm_chunk_size - LmRows
            /\ Len(flat_out) - Len(lm_logits) = lm_pad_num
            /\ \A r \in 1..Len(flat_out) :
                  /\ Len(flat_out[r]) = LmHiddenDim
                  /\ r <= LmRows => flat_in[r] = lm_hidden_states[r]
                  /\ r <= LmRows => lm_logits[r] = full[r]
                  /\ r > LmRows => flat_in[r] = ZeroRow(LmHiddenDim)

\* two chunks, the last one padded, input rows all different
C8_Witness ==
    /\ lm_pc = "done"
    /\ lm_chunks = 2
    /\ lm_pad_num = 1
    /\ Len(lm_logits) = 3
    /\ lm_hidden_states[1] # lm_hidden_states[2]
    /\ lm_hidden_states[2] # lm_hidden_states[3]
    /\ lm_logits[1] # lm_logits[3]

LmBandsCounted ==
    \/ lm_pc = "bands" /\ lm_i = lm_decomp_factor
    \/ lm_pc \in {"covered", "coverage_assert", "done"}

\* C10 as stated: the per-band counts sum to rows_padded x channels, with
\* rows_padded = chunks * chunk_size.
C10_Original ==
    LmBandsCounted =>
        SeqSumInt(lm_count) = (lm_chunks * lm_chunk_size) * LmHiddenDim

\* C10 amended: the per-band counts sum to chunks x channels (one entry per
\* chunk and channel, not one per padded row and channel).
C10_CountSum ==
    LmBandsCounted =>
        /\ Len(lm_count) = lm_decomp_factor
        /\ SeqSumInt(lm_count) = lm_chunks * LmHiddenDim

C10_Witness ==
    /\ lm_pc = "done"
    /\ lm_chunks = 2
    /\ lm_chunk_size = 2
    /\ lm_decomp_factor = 3
    /\ \A k \in 1..3 : lm_count[k] > 0

(***************************************************************************)
(* Claims about both decomposition quantizers (checked under SpecDecomp or *)
(* SpecAttn).                                                              *)
(***************************************************************************)
LmStatsComputed ==
    lm_pc \in {"bands", "covered", "coverage_assert", "done"}

AtQueryStatsComputed ==
    at_pc \in {"bands", "covered", "scored"} /\ at_self.q_group_index = None

AtScoreStatsComputed ==
    at_pc \in {"s_bands", "s_covered"} /\ at_self.s_group_index = None

\* the bands whose mask selects an entry of per-channel maximum cmax in chunk c
BandsClosedTop(decomp_factor, cmax, thresholds, c) ==
    {i \in 0..(decomp_factor - 1) : MaskClosedTop(i, decomp_factor, cmax, thresholds, c)}

BandsInclusive(decomp_factor, cmax, thresholds, c) ==
    {i \in 0..(decomp_factor - 1) : MaskInclusive(i, decomp_factor, cmax, thresholds, c)}

\* every (chunk, channel) entry lies in the mask of exactly one band, on the three
\* paths with statistics computed on the fly
ExactlyOneBand ==
    /\ LmStatsComputed =>
           \A c \in DOMAIN lm_cmax : \A ch \in DOMAIN lm_cmax[c] :
               Cardinality(BandsClosedTop(lm_decomp_factor, lm_cmax[c][ch],
                                          lm_thresholds, c)) = 1
    /\ AtQueryStatsComputed =>
           \A b \in DOMAIN at_q_cmax : \A c \in DOMAIN at_q_cmax[b] :
               \A ch \in DOMAIN at_q_cmax[b][c] :
                   Cardinality(BandsInclusive(at_self.decomp_factor, at_q_cmax[b][c][ch],
                                              at_thresholds[b], c)) = 1
    /\ AtScoreStatsComputed =>
           \A b \in DOMAIN at_s_cmax : \A c \in DOMAIN at_s_cmax[b] :
               \A ch \in DOMAIN at_s_cmax[b][c] :
                   Cardinality(BandsClosedTop(at_self.decomp_factor, at_s_cmax[b][c][ch],
                                              at_thresholds[b], c)) = 1

\* C1 as stated: with statistics computed on the fly every (chunk, channel) entry
\* is selected by exactly one band on the LM-head, score and query paths, and the
\* coverage assertion never fails.
C1_Original ==
    /\ ExactlyOneBand
    /\ lm_pc # "coverage_assert"
    /\ at_pc # "coverage_assert"

AtDecompUntouched ==
    /\ at_q_ch_bias = <<>>
    /\ at_o_ch_bias = <<>>
    /\ at_q_tmax = <<>>
    /\ at_q_cmax = <<>>
    /\ at_thresholds = <<>>
    /\ at_count = <<>>
    /\ at_result = <<>>
    /\ at_hidden_chunks = <<>>
    /\ at_self.q_ch_bias_cal = None
    /\ at_self.q_tmax_cal = None
    /\ at_self.q_cmax_cal = None

LmDecompUntouched ==
    /\ lm_tmax = <<>>
    /\ lm_thresholds = <<>>
    /\ lm_cmax = <<>>
    /\ lm_count = <<>>
    /\ lm_result = <<>>
    /\ lm_hidden_chunks = <<>>
    /\ lm_logits = <<>>

\* chunks is the least integer with chunks * chunk_size >= rows
IsCeil(chunks, rows, chunk_size) ==
    /\ chunks * chunk_size >= rows
    /\ (chunks - 1) * chunk_size < rows

LmCallEnded ==
    lm_pc \in {"done", "zero_scale_assert", "chunks_assert", "coverage_assert"}

AtCallEnded ==
    at_pc \in {"done", "zero_scale_assert", "chunks_assert", "coverage_assert",
               "empty_reduce_error", "nan_result"}

\* C9 as stated: chunks = ceil(rows / chunk_size); a zero-row input gives chunks = 0
\* and the call fails with the chunks assertion before any statistics or
\* quantization are computed; rows >= 1 gives chunks >= 1 and a padding in
\* [0, chunk_size).
C9_Original ==
    /\ (lm_pc # "idle" /\ LmRows = 0) =>
           /\ divisors = {}
           /\ lm_Wl = <<>>
           /\ LmDecompUntouched
           /\ LmCallEnded => (lm_pc = "chunks_assert" /\ lm_chunks = 0)
    /\ (at_pc # "idle" /\ at_self.quant_mha /\ at_in.q_len = 0) =>
           /\ divisors = {}
           /\ at_K = <<>>
           /\ AtDecompUntouched
           /\ AtCallEnded => (at_pc = "chunks_assert" /\ at_chunks = 0)
    /\ (lm_chunks # -1 /\ LmRows >= 1) =>
           /\ IsCeil(lm_chunks, LmRows, lm_chunk_size)
           /\ lm_chunks >= 1
           /\ lm_pad_num \in 0..(lm_chunk_size - 1)
    /\ (at_chunks # -1 /\ at_in.q_len >= 1) =>
           /\ IsCeil(at_chunks, at_in.q_len, at_self.chunk_size)
           /\ at_chunks >= 1
           /\ at_pad_num \in 0..(at_self.chunk_size - 1)

\* C9 amended: chunks = ceil(rows / chunk_size); when the chunking is reached with
\* zero rows, chunks = 0 and the chunks assertion fails before any statistic or
\* quantization of the chunked tensor is computed (the row-wise quantization of the
\* LM-head weight and of the attention keys run before the chunking, and the key
\* step can fail first); rows >= 1 gives chunks >= 1 and a padding in
\* [0, chunk_size).
C9_ChunkCount ==
    /\ (lm_chunks # -1) =>
           /\ IsCeil(lm_chunks, LmRows, lm_chunk_size)
           /\ (lm_chunks = 0) <=> (LmRows = 0)
           /\ (lm_pc = "chunks_assert") <=> (lm_chunks = 0)
    /\ (lm_pc # "idle" /\ LmRows = 0) =>
           /\ LmDecompUntouched
           /\ lm_pc \in {"start", "weight_done", "zero_scale_assert", "chunks_assert"}
    /\ (lm_chunks # -1 /\ LmRows >= 1) =>
           /\ lm_chunks >= 1
           /\ lm_pad_num \in 0..(lm_chunk_size - 1)
           /\ lm_pad_num = lm_chunks * lm_chunk_size - LmRows
    /\ (at_chunks # -1) =>
           /\ IsCeil(at_chunks, at_in.q_len, at_self.chunk_size)
           /\ (at_chunks = 0) <=> (at_in.q_len = 0)
           /\ (at_pc = "chunks_assert") <=> (at_chunks = 0)
    /\ (at_pc # "idle" /\ at_self.quant_mha /\ at_in.q_len = 0) =>
           /\ AtDecompUntouched
           /\ at_pc \in {"start", "key_done", "zero_scale_assert", "empty_reduce_error",
                         "chunks_assert"}
    /\ (at_chunks # -1 /\ at_in.q_len >= 1) =>
           /\ at_chunks >= 1
           /\ at_pad_num \in 0..(at_self.chunk_size - 1)
           /\ at_pad_num = at_chunks * at_self.chunk_size - at_in.q_len

\* the attention call fails on the chunks assertion, the keys already quantized
C9_Witness ==
    /\ at_pc = "chunks_assert"
    /\ at_chunks = 0
    /\ at_in.q_len = 0
    /\ at_K # <<>>

(***************************************************************************)
(* Claims about the LM-head decomposition with one band (SpecLm).          *)
(***************************************************************************)
\* the direct symmetric quantize/dequantize of chunk c at the scale tmax / q_max
DirectChunk(hc, c, q_bits) ==
    LET tmax == ChunkTensorMax(hc)[c]
        s == RDiv(tmax, RInt(QMax(q_bits)))
    IN  [r \in DOMAIN hc[c] |-> [ch \in DOMAIN hc[c][r] |->
            sym_dequant_elem(sym_quant_elem(hc[c][r][ch], s, q_bits), s)]]

\* C11: with decomp_factor = 1 the reconstruction of the LM-head path equals, for
\* every chunk of non-zero maximum, sym_dequant(sym_quant(X, tmax/q_max, bits),
\* tmax/q_max) of the whole chunk.
C11_SingleBandDirect ==
    (lm_pc \in {"covered", "done"} /\ lm_decomp_factor = 1) =>
        \A c \in DOMAIN lm_hidden_chunks :
            (ChunkTensorMax(lm_hidden_chunks)[c] # Zero) =>
                lm_result[c] = DirectChunk(lm_hidden_chunks, c, LmQBits)

\* two chunks of different maxima, the reconstruction off the input
C11_Witness ==
    /\ lm_pc = "done"
    /\ lm_decomp_factor = 1
    /\ lm_chunks = 2
    /\ lm_tmax[1] # lm_tmax[2]
    /\ lm_result[1] # lm_hidden_chunks[1]
    /\ lm_result[1] = DirectChunk(lm_hidden_chunks, 1, LmQBits)

TopBandRoundTrip(tmax, bits) ==
    ToDtype(RMul(RInt(QMax(LmQBits)),
                 ToDtype(RDiv(tmax, RInt(QMax(LmQBits))), bits)), bits)

C13_SuppliedUntouched ==
    AtCalibration(at_self) = at_supplied

\* the last call of a sequence has returned, every call before it returned too;
\* q_tmax was supplied and the key scale, not supplied, was computed and stored
C13_Witness ==
    /\ Len(at_calls) = MaxCalls - 1
    /\ at_pc = "done"
    /\ \A k \in DOMAIN at_calls : at_calls[k].out.pc = "done"
    /\ at_self.quant_mha
    /\ at_supplied["q_tmax"] # None
    /\ at_supplied["k_scale"] = None
    /\ at_self.k_scale_cal # None

\* the first n entries along dimension 1 of a supplied tensor
FirstOf(t, n) ==
    [b \in DOMAIN t |-> [c \in 1..n |-> t[b][c]]]

\* entries equal to i in the first n entries along dimension 1 and the first m
\* along dimension 2 of a supplied group index
IndexCount(group_index, i, n, m) ==
    Cardinality({ e \in (DOMAIN group_index) \X (1..n) \X (1..m) :
                    group_index[e[1]][e[2]][e[3]] = i })

\* the query chunks before the channel bias is subtracted
AtQueryChunks ==
    AtChunked(at_in.query_states, at_in.q_len, at_self.chunk_size, at_self.head_dim)

\* the keys: bias and row scale
KeyItems(k_scale_len) ==
    (at_pc = "key_done") =>
        /\ IF at_self.k_ch_bias # None
              THEN /\ at_k_ch_bias = at_self.k_ch_bias
                   /\ at_self.k_ch_bias_cal = None
              ELSE /\ at_k_ch_bias = [b \in 1..AtBH |->
                          ChannelBias(at_in.key_states[b], at_self.head_dim)]
                   /\ at_self.k_ch_bias_cal = at_k_ch_bias
        /\ IF at_self.k_scale # None
              THEN /\ at_k_scale = FirstOf(at_self.k_scale, k_scale_len)
                   /\ at_self.k_scale_cal = None
              ELSE /\ at_k_scale = [b \in 1..AtBH |-> [j \in 1..AtSrcLen |->
                          RDiv(RowAbsMax(SubRow(at_in.key_states[b][j], at_k_ch_bias[b])),
                               RInt(QMax(at_self.q_bits)))]]
                   /\ at_self.k_scale_cal = at_k_scale
        /\ at_K = [b \in 1..AtBH |-> [j \in 1..AtSrcLen |-> [ch \in 1..at_self.head_dim |->
              sym_dequant_elem(
                  sym_quant_elem(RSub(at_in.key_states[b][j][ch], at_k_ch_bias[b][ch]),
                                 at_k_scale[b][j], at_self.q_bits),
                  at_k_scale[b][j])]]]

\* the query bias
QueryBiasItem ==
    (at_pc = "unbiased") =>
        /\ IF at_self.q_ch_bias # None
              THEN /\ at_q_ch_bias = FirstOf(at_self.q_ch_bias, at_chunks)
                   /\ at_self.q_ch_bias_cal = None
              ELSE /\ at_q_ch_bias = [b \in 1..AtBH |-> [c \in 1..at_chunks |->
                          ChannelBias(AtQueryChunks[b][c], at_self.head_dim)]]
                   /\ at_self.q_ch_bias_cal = at_q_ch_bias
        /\ at_hidden_chunks = [b \in 1..AtBH |-> [c \in 1..at_chunks |->
              [r \in 1..at_self.chunk_size |->
                  SubRow(AtQueryChunks[b][c][r], at_q_ch_bias[b][c])]]]

\* the query tensor-max and group index
QueryBandItems ==
    (at_pc = "bands") =>
        /\ IF at_self.q_tmax # None
              THEN /\ at_q_tmax = FirstOf(at_self.q_tmax, at_chunks)
                   /\ at_self.q_tmax_cal = None
              ELSE /\ at_q_tmax = [b \in 1..AtBH |-> ChunkTensorMax(at_hidden_chunks[b])]
                   /\ at_self.q_tmax_cal = at_q_tmax
        /\ at_thresholds = [b \in 1..AtBH |-> Thresholds(at_q_tmax[b], at_self.decomp_factor)]
        /\ IF at_self.q_group_index # None
              THEN /\ at_q_cmax = <<>>
                   /\ at_self.q_cmax_cal = None
                   /\ \A k \in DOMAIN at_count :
                         at_count[k] = IndexCount(at_self.q_group_index, k - 1, at_chunks,
                                                  at_self.head_dim)
              ELSE /\ at_q_cmax = [b \in 1..AtBH |->
                          ChunkChannelMax(at_hidden_chunks[b], at_self.head_dim)]
                   /\ at_self.q_cmax_cal = at_q_cmax

\* the value scale
ValueItem ==
    (at_pc = "value_done") =>
        /\ IF at_self.v_scale # None
              THEN /\ at_v_scale = at_self.v_scale
                   /\ at_self.v_scale_cal = None
              ELSE /\ at_v_scale = [b \in 1..AtBH |-> [ch \in 1..at_self.head_dim |->
                          RDiv(SeqMax([j \in 1..AtSrcLen |->
                                          RAbs(at_in.value_states[b][j][ch])]),
                               RInt(QMax(at_self.q_bits)))]]
                   /\ at_self.v_scale_cal = at_v_scale
        /\ at_V = [b \in 1..AtBH |-> [j \in 1..AtSrcLen |-> [ch \in 1..at_self.head_dim |->
              sym_dequant_elem(
                  sym_quant_elem(at_in.value_states[b][j][ch], at_v_scale[b][ch],
                                 at_self.q_bits),
                  at_v_scale[b][ch])]]]

\* the score tensor-max and group index
ScoreBandItems ==
    (at_pc = "s_bands") =>
        /\ IF at_self.s_tmax # None
              THEN /\ at_s_tmax = FirstOf(at_self.s_tmax, at_chunks)
                   /\ at_self.s_tmax_cal = None
              ELSE /\ at_s_tmax = [b \in 1..AtBH |-> ChunkTensorMax(at_hidden_chunks[b])]
                   /\ at_self.s_tmax_cal = at_s_tmax
        /\ at_thresholds = [b \in 1..AtBH |-> Thresholds(at_s_tmax[b], at_self.decomp_factor)]
        /\ IF at_self.s_group_index # None
              THEN /\ at_s_cmax = <<>>
                   /\ at_self.s_cmax_cal = None
                   /\ \A k \in DOMAIN at_count :
                         at_count[k] = IndexCount(at_self.s_group_index, k - 1, at_chunks,
                                                  AtSrcLen)
              ELSE /\ at_s_cmax = [b \in 1..AtBH |->
                          ChunkChannelMax(at_hidden_chunks[b], AtSrcLen)]
                   /\ at_self.s_cmax_cal = at_s_cmax

\* C14 as stated: every supplied item is used sliced to the current chunk count,
\* the key scale included
C14_Original ==
    /\ KeyItems(CeilDiv(at_in.q_len, at_self.chunk_size))
    /\ QueryBiasItem
    /\ QueryBandItems
    /\ ValueItem
    /\ ScoreBandItems

\* C14: for each calibration item of the quantized attention path, a supplied
\* field is used and the statistic is neither computed nor stored (its *_cal field
\* stays None); a field left None has its statistic computed from the current
\* input and stored in the matching *_cal field (q_cmax_cal, s_cmax_cal for the
\* group indexes).  The supplied query bias, query and score tensor-max and group
\* indexes are sliced to the current chunk count (the score group index also to
\* the key positions), the supplied key scale is sliced to the current number of
\* key positions, the supplied key bias and value scale are used whole.
C14_CalibrationItems ==
    /\ KeyItems(AtSrcLen)
    /\ QueryBiasItem
    /\ QueryBandItems
    /\ ValueItem
    /\ ScoreBandItems

\* a call on a module with every item supplied is in its score band loop, with
\* fewer chunks than the supplied tensors hold and more key positions than chunks
C14_Witness ==
    /\ at_pc = "s_bands"
    /\ at_i = at_self.decomp_factor
    /\ \A name \in AtCalNames : at_supplied[name] # None
    /\ at_chunks < Len(at_self.s_tmax[1])
    /\ at_chunks < AtSrcLen
    /\ Len(at_calls) >= 1

\* a call on a module with nothing supplied is in its score band loop after an
\* earlier call with another input: every *_cal field holds this call's statistic
C14_WitnessComputed ==
    /\ at_pc = "s_bands"
    /\ \A name \in AtCalNames : at_supplied[name] = None
    /\ Len(at_calls) >= 1
    /\ at_calls[Len(at_calls)].in # AtArguments(at_in)
    /\ at_calls[Len(at_calls)].out.pc = "done"

\* C15: forward invocations are independent.  With the configuration and the
\* supplied calibration fixed, a call that has returned or raised has the outcome
\* (how it ended, the scores given to the softmax, the attention probabilities,
\* attn_output, past_key_value) of every earlier call on the same module that had
\* the same arguments, whatever calls were made in between and whatever they left
\* in the module.
C15_Original ==
    (at_pc \in AtTerminal) =>
        \A k \in DOMAIN at_calls :
            (at_calls[k].in = AtArguments(at_in)) => (at_calls[k].out = AtOutcome)

\* C18: in the query path (inclusive upper bound for every band) the band counts
\* sum to the number of (slice, chunk, channel) entries, the value line 768
\* asserts for bsz = 1, also when q_tmax is supplied and q_group_index is not,
\* whatever the channel maxima of the input are.
C18_Original ==
    (/\ at_pc = "bands"
     /\ at_i = at_self.decomp_factor
     /\ at_self.q_tmax # None
     /\ at_self.q_group_index = None) =>
        /\ SeqSumInt(at_count) = AtBH * at_self.head_dim * at_chunks
        /\ AtBH * at_self.head_dim * at_chunks
               = at_self.num_heads * at_self.head_dim * at_chunks

(***************************************************************************)
(* Claims about repeat_kv (checked under SpecRepeatKv).                     *)
(***************************************************************************)
\* C17: repeat_kv(x, n_rep) is the repeat-interleave of x along the head
\* dimension: for every n_rep >= 1 the output has num_key_value_heads * n_rep
\* heads, output head h (0-based) is input head floor(h / n_rep), and for
\* n_rep = 1 the output is the input.
C17_RepeatInterleave ==
    (rk_pc = "done") =>
        /\ DOMAIN rk_out = DOMAIN rk_hidden_states
        /\ \A b \in DOMAIN rk_out :
              /\ Len(rk_out[b]) = Len(rk_hidden_states[b]) * rk_n_rep
              /\ \A h \in 0..(Len(rk_out[b]) - 1) :
                    rk_out[b][h + 1] = rk_hidden_states[b][(h \div rk_n_rep) + 1]
        /\ (rk_n_rep = 1) => (rk_out = rk_hidden_states)

\* two heads with different contents have been repeated three times
C17_Witness ==
    /\ rk_pc = "done"
    /\ rk_n_rep = 3
    /\ Len(rk_hidden_states[1]) = 2
    /\ rk_hidden_states[1][1] # rk_hidden_states[1][2]
    /\ Len(rk_out[1]) = 6

(***************************************************************************)
(* Claims about the key/value cache (checked under SpecCache).              *)
(***************************************************************************)
\* C16: with use_cache True, LlamaModel.forward returns for every layer the
\* key and value states of all tokens seen so far (the past states followed
\* by the current ones), so over decoding steps that feed the returned value
\* back the cached length grows by the number of new tokens of each step.
C16_Original ==
    (kv_pc = "returned" /\ kv_config.use_cache) =>
        /\ kv_next_decoder_cache # None
        /\ Len(kv_next_decoder_cache) = kv_config.num_hidden_layers
        /\ \A l \in 1..kv_config.num_hidden_layers :
              /\ kv_next_decoder_cache[l] # None
              /\ kv_next_decoder_cache[l] = <<KeyStates(kv_seen), ValueStates(kv_seen)>>

(***************************************************************************)
(* Claims about the thresholds and the band loop (checked under SpecDecomp).*)
(***************************************************************************)
\* thresholds[k][c], k = 1 .. decomp_factor, is the ladder below tmax[c]
GeometricLadder(thresholds, tmax, decomp_factor) ==
    /\ Len(thresholds) = decomp_factor
    /\ \A k \in 1..decomp_factor :
          /\ DOMAIN thresholds[k] = DOMAIN tmax
          /\ \A c \in DOMAIN tmax :
                /\ RMul(thresholds[k][c], RInt(Pow2(decomp_factor - k))) = tmax[c]
                /\ (k = decomp_factor) => (thresholds[k][c] = tmax[c])
                /\ (k >= 2) =>
                      /\ thresholds[k][c] = RMul(RInt(2), thresholds[k - 1][c])
                      /\ RLe(thresholds[k - 1][c], thresholds[k][c])
                      /\ RLt(Zero, tmax[c]) => RLt(thresholds[k - 1][c], thresholds[k][c])

\* the tensor maxima the attention's current thresholds were derived from
AtCurrentTmax ==
    IF at_s_tmax # <<>> THEN at_s_tmax ELSE at_q_tmax

\* C19: the thresholds of every chunk form a geometric ladder: threshold[i] =
\* tmax / 2^(D-1-i) for i in [0, D), so threshold[D-1] = tmax, threshold[i] =
\* 2 * threshold[i-1] for i >= 1, and the sequence is non-decreasing, strictly
\* increasing when tmax > 0 (LM head, query path and score path).
C19_GeometricLadder ==
    /\ (lm_thresholds # <<>>) =>
           GeometricLadder(lm_thresholds, lm_tmax, lm_decomp_factor)
    /\ (at_thresholds # <<>>) =>
           \A b \in DOMAIN at_thresholds :
               GeometricLadder(at_thresholds[b], AtCurrentTmax[b], at_self.decomp_factor)

\* thresholds of a chunk with a non-zero maximum, for at least two bands
C19_Witness ==
    /\ lm_pc = "bands"
    /\ lm_decomp_factor >= 2
    /\ \E c \in DOMAIN lm_tmax :
          /\ RLt(Zero, lm_tmax[c])
          /\ RLt(lm_thresholds[1][c], lm_thresholds[lm_decomp_factor][c])

\* the channels of chunk c the LM head assigns to band i (0-based)
LmBandEntries(i, c) ==
    {ch \in DOMAIN lm_cmax[c] :
        MaskClosedTop(i, lm_decomp_factor, lm_cmax[c][ch], lm_thresholds, c)}

\* the divisor sym_quant uses for chunk c of band i in the LM head
LmBandDivisor(i, c) ==
    ClampScale(ToDtype(RDiv(lm_thresholds[i + 1][c], RInt(QMax(LmQBits))), lm_dtype_bits))

\* the channels of chunk c of head b the query path assigns to band i
AtBandEntries(i, b, c) ==
    {ch \in DOMAIN at_q_cmax[b][c] :
        MaskInclusive(i, at_self.decomp_factor, at_q_cmax[b][c][ch], at_thresholds[b], c)}

AtBandDivisor(i, b, c) ==
    ClampScale(RDiv(at_thresholds[b][i + 1][c], RInt(QMax(at_self.q_bits))))

\* an iteration of the LM head's band loop
C20_LmStep ==
    (lm_pc = "bands" /\ lm_i < lm_decomp_factor /\ lm_count' # lm_count) =>
        IF \A c \in DOMAIN lm_cmax : LmBandEntries(lm_i, c) = {}
            THEN /\ lm_result' = lm_result
                 /\ divisors' = divisors
                 /\ lm_pc' = "bands"
                 /\ lm_i' = lm_i + 1
            ELSE \/ lm_pc' = "zero_scale_assert"
                 \/ /\ lm_i' = lm_i + 1
                    /\ \A c \in DOMAIN lm_cmax : LmBandDivisor(lm_i, c) \in divisors'

\* an iteration of the query path's band loop (no group index supplied)
C20_AtStep ==
    (/\ at_pc = "bands" /\ at_i < at_self.decomp_factor /\ at_count' # at_count
     /\ at_self.q_group_index = None) =>
        IF \A b \in DOMAIN at_q_cmax : \A c \in DOMAIN at_q_cmax[b] :
               AtBandEntries(at_i, b, c) = {}
            THEN /\ at_result' = at_result
                 /\ divisors' = divisors
                 /\ at_pc' = "bands"
                 /\ at_i' = at_i + 1
            ELSE \/ at_pc' = "zero_scale_assert"
                 \/ /\ at_i' = at_i + 1
                    /\ \A b \in DOMAIN at_q_cmax : \A c \in DOMAIN at_q_cmax[b] :
                           AtBandDivisor(at_i, b, c) \in divisors'

\* C20: a band whose count is zero is skipped (no sym_quant call, hence no
\* division by its scale, and the accumulated result is left as it was); a band
\* is skipped only when its count over all chunks is zero, so a band empty in
\* one chunk and non-empty in another is quantized for every chunk.
C20_EmptyBandSkipped ==
    [][C20_LmStep /\ C20_AtStep]_vars

\* the LM head has skipped an empty band and has quantized a band that is empty
\* in one chunk and non-empty in another
C20_Witness ==
    /\ lm_pc = "bands"
    /\ lm_i >= 2
    /\ \E k \in 1..(lm_i - 1) : lm_count[k] = 0
    /\ lm_count[lm_i] > 0
    /\ \E c \in DOMAIN lm_cmax :
          /\ LmBandEntries(lm_i - 1, c) = {}
          /\ LmBandDivisor(lm_i - 1, c) \in divisors

(***************************************************************************)
(* Claims about the bands' scales and the reconstruction (SpecDecomp).      *)
(***************************************************************************)
\* x quantized to a signed integer of the given width with scale s, dequantized
SignedBand(x, s, bits) ==
    LET q == RoundHalfEven(RDiv(x, s))
        lo == -Pow2(bits - 1)
        hi == Pow2(bits - 1) - 1
    IN  RMul(RInt(IF q < lo THEN lo ELSE IF q > hi THEN hi ELSE q), s)

\* x quantized to an integer in [0, 2^bits - 1] with scale s, dequantized
UnsignedBand(x, s, bits) ==
    LET q == RoundHalfEven(RDiv(x, s))
        hi == Pow2(bits) - 1
    IN  RMul(RInt(IF q < 0 THEN 0 ELSE IF q > hi THEN hi ELSE q), s)

\* the LM head's result after the bands before lm_i: the sum of their contributions
LmBandSum(c, r, ch) ==
    SeqSumRat([j \in 1..lm_i |->
        IF lm_count[j] > 0 /\ ch \in LmBandEntries(j - 1, c)
            THEN ToDtype(
                     SignedBand(lm_hidden_chunks[c][r][ch],
                                ToDtype(RDiv(lm_thresholds[j][c],
                                             RInt(Pow2(LmQBits - 1) - 1)),
                                        lm_dtype_bits),
                                LmQBits),
                     lm_dtype_bits)
            ELSE Zero])

\* channel ch of chunk c of head b belongs to query band j (0-based)
AtQueryInBand(j, b, c, ch) ==
    IF at_self.q_group_index = None
        THEN ch \in AtBandEntries(j, b, c)
        ELSE at_self.q_group_index[b][c][ch] = j

AtQueryBandSum(b, c, r, ch) ==
    SeqSumRat([j \in 1..at_i |->
        IF at_count[j] > 0 /\ AtQueryInBand(j - 1, b, c, ch)
            THEN SignedBand(at_hidden_chunks[b][c][r][ch],
                            RDiv(at_thresholds[b][j][c],
                                 RInt(Pow2(at_self.q_bits - 1) - 1)),
                            at_self.q_bits)
            ELSE Zero])

\* position ch of chunk c of head b belongs to score band j (0-based)
AtScoreInBand(j, b, c, ch) ==
    IF at_self.s_group_index = None
        THEN MaskClosedTop(j, at_self.decomp_factor, at_s_cmax[b][c][ch],
                           at_thresholds[b], c)
        ELSE at_self.s_group_index[b][c][ch] = j

AtScoreBandSum(b, c, r, ch) ==
    SeqSumRat([j \in 1..at_i |->
        IF at_count[j] > 0 /\ AtScoreInBand(j - 1, b, c, ch)
            THEN UnsignedBand(at_hidden_chunks[b][c][r][ch],
                              RDiv(at_thresholds[b][j][c],
                                   RInt(Pow2(at_self.q_bits) - 1)),
                              at_self.q_bits)
            ELSE Zero])

\* C21: band i is quantized with scale threshold[i] / q_max, q_max being
\* 2^(bits-1) - 1 for the signed bands (query path, LM head) and 2^bits - 1 for
\* the attention-probability bands, whose quantized values are integers in
\* [0, 2^bits - 1]; the reconstructed chunk is the sum over the bands of the
\* dequantized contributions.
C21_BandScales ==
    /\ (lm_pc = "bands") =>
           \A c \in DOMAIN lm_result : \A r \in DOMAIN lm_result[c] :
               \A ch \in DOMAIN lm_result[c][r] :
                   lm_result[c][r][ch] = LmBandSum(c, r, ch)
    /\ (at_pc = "bands") =>
           \A b \in DOMAIN at_result : \A c \in DOMAIN at_result[b] :
               \A r \in DOMAIN at_result[b][c] : \A ch \in DOMAIN at_result[b][c][r] :
                   at_result[b][c][r][ch] = AtQueryBandSum(b, c, r, ch)
    /\ (at_pc = "s_bands") =>
           \A b \in DOMAIN at_result : \A c \in DOMAIN at_result[b] :
               \A r \in DOMAIN at_result[b][c] : \A ch \in DOMAIN at_result[b][c][r] :
                   at_result[b][c][r][ch] = AtScoreBandSum(b, c, r, ch)

\* the score loop has finished with two non-empty bands and a non-zero result
C21_Witness ==
    /\ at_pc = "s_bands"
    /\ at_i = at_self.decomp_factor
    /\ at_i >= 2
    /\ at_count[1] > 0
    /\ at_count[2] > 0
    /\ \E b \in DOMAIN at_result : \E c \in DOMAIN at_result[b] :
          \E r \in DOMAIN at_result[b][c] : \E ch \in DOMAIN at_result[b][c][r] :
              at_result[b][c][r][ch] # Zero

(***************************************************************************)
(* Claims about the query path's bias (checked under SpecBias).             *)
(***************************************************************************)
\* maximum and minimum of channel ch over the rows of a chunk, padding included
ChMax(chunk, ch) ==
    SeqMax([r \in DOMAIN chunk |-> chunk[r][ch]])

ChMin(chunk, ch) ==
    SeqMin([r \in DOMAIN chunk |-> chunk[r][ch]])

ChAbsMax(chunk, ch) ==
    SeqMax([r \in DOMAIN chunk |-> RAbs(chunk[r][ch])])

\* the bias of every channel of every chunk is (max + min) / 2 over all its rows
QbBiasIsMidpoint ==
    \A c \in DOMAIN qb_hidden_chunks : \A ch \in 1..qb_in.head_dim :
        qb_q_ch_bias[c][ch]
            = RDiv(RAdd(ChMax(qb_hidden_chunks[c], ch), ChMin(qb_hidden_chunks[c], ch)),
                   RInt(2))

\* after the subtraction max = -min in every channel of every chunk
QbSymmetric ==
    \A c \in DOMAIN qb_out : \A ch \in 1..qb_in.head_dim :
        ChMax(qb_out[c], ch) = RSub(Zero, ChMin(qb_out[c], ch))

\* the maximum magnitude after the subtraction is (max - min) / 2 of before
QbHalfRange ==
    \A c \in DOMAIN qb_out : \A ch \in 1..qb_in.head_dim :
        ChAbsMax(qb_out[c], ch)
            = RDiv(RSub(ChMax(qb_hidden_chunks[c], ch), ChMin(qb_hidden_chunks[c], ch)),
                   RInt(2))

\* the maximum magnitude does not grow
QbNotLarger ==
    \A c \in DOMAIN qb_out : \A ch \in 1..qb_in.head_dim :
        RLe(ChAbsMax(qb_out[c], ch), ChAbsMax(qb_hidden_chunks[c], ch))

\* C22 as stated: the bias is (max + min) / 2 over the chunk's rows, padding
\* rows included; after subtracting it every channel of every chunk has
\* max = -min and maximum magnitude (max - min) / 2, which is not larger than
\* the maximum magnitude before.
C22_Original ==
    (qb_pc = "subtracted") =>
        /\ QbBiasIsMidpoint
        /\ QbSymmetric
        /\ QbHalfRange
        /\ QbNotLarger

\* the bias lies between the channel's minimum and maximum, and after the
\* subtraction the channel's values lie on both sides of zero
QbStraddlesZero ==
    \A c \in DOMAIN qb_out : \A ch \in 1..qb_in.head_dim :
        /\ RLe(ChMin(qb_hidden_chunks[c], ch), qb_q_ch_bias[c][ch])
        /\ RLe(qb_q_ch_bias[c][ch], ChMax(qb_hidden_chunks[c], ch))
        /\ RLe(ChMin(qb_out[c], ch), Zero)
        /\ RLe(Zero, ChMax(qb_out[c], ch))

\* C22, amended: the bias is (max + min) / 2 over the chunk's rows, padding
\* rows included, as the dtype computes it.  After subtracting it every channel
\* of every chunk has min <= 0 <= max and a maximum magnitude not larger than
\* before; max = -min, the bias being the exact midpoint and the maximum
\* magnitude being (max - min) / 2 hold when the sum and the subtraction are
\* exact, and can fail by the dtype's rounding otherwise.
C22_BiasCentres ==
    (qb_pc = "subtracted") =>
        /\ QbStraddlesZero
        /\ QbNotLarger
        /\ (qb_in.bits = 0) => (QbBiasIsMidpoint /\ QbSymmetric /\ QbHalfRange)

\* a last chunk with a padding row and a non-zero bias, in exact arithmetic and
\* in the dtype, where the rounding has broken the symmetry
C22_Witness ==
    /\ qb_pc = "subtracted"
    /\ Len(qb_in.query_states) % qb_in.chunk_size # 0
    /\ qb_q_ch_bias[Len(qb_q_ch_bias)][1] # Zero
    /\ qb_in.bits # 0
    /\ ~QbSymmetric

\* the same in exact arithmetic
C22_WitnessExact ==
    /\ qb_pc = "subtracted"
    /\ Len(qb_in.query_states) % qb_in.chunk_size # 0
    /\ qb_q_ch_bias[Len(qb_q_ch_bias)][1] # Zero
    /\ qb_in.bits = 0
    /\ QbSymmetric

(***************************************************************************)
(* Claims about the compensation of the biases (checked under SpecAttnGrid).*)
(***************************************************************************)
\* row r of chunk c of a chunked tensor is row (c - 1) * chunk_size + r of the queries
AtChunkRow(t, row) ==
    t[((row - 1) \div at_self.chunk_size) + 1][((row - 1) % at_self.chunk_size) + 1]

\* the keys with their bias removed, before quantization
AtKeysUnbiased(b, j) ==
    [ch \in 1..at_self.head_dim |-> RSub(at_in.key_states[b][j][ch], at_k_ch_bias[b][ch])]

\* quantizing and dequantizing has changed neither the unbiased queries nor the
\* unbiased keys
AtQuantLossless ==
    /\ \A b \in 1..AtBH : at_result[b] = at_hidden_chunks[b]
    /\ \A b \in 1..AtBH : \A j \in 1..AtSrcLen : at_K[b][j] = AtKeysUnbiased(b, j)

\* C23: the bias removed from queries and keys is compensated exactly in the
\* attention scores.  For every non-padding row, result * K + o1_ch_bias +
\* o2_ch_bias + o3_ch_bias differs from the product of the scaled queries with
\* the transposed keys by what quantization changed in (Q - q_ch_bias) and
\* (K - k_ch_bias) only; when every value lies on the quantization grid the
\* scores equal the unquantized product.
C23_BiasCompensated ==
    (at_pc = "scored" /\ at_self.quant_mha) =>
        \A b \in 1..AtBH : \A row \in 1..at_in.q_len : \A j \in 1..AtSrcLen :
            /\ RSub(at_attn_weights[b][row][j],
                    Dot(at_in.query_states[b][row], at_in.key_states[b][j]))
                 = RSub(Dot(AtChunkRow(at_result[b], row), at_K[b][j]),
                        Dot(AtChunkRow(at_hidden_chunks[b], row), AtKeysUnbiased(b, j)))
            /\ AtQuantLossless =>
                   at_attn_weights[b][row][j]
                       = Dot(at_in.query_states[b][row], at_in.key_states[b][j])

\* scores of a padded call whose values all lie on the grid, with non-zero biases
C23_Witness ==
    /\ at_pc = "scored"
    /\ at_self.quant_mha
    /\ AtQuantLossless
    /\ at_in.q_len >= 1
    /\ at_pad_num > 0
    /\ \E b \in 1..AtBH : \E ch \in 1..at_self.head_dim : at_k_ch_bias[b][ch] # Zero
    /\ \E b \in 1..AtBH : \E c \in 1..at_chunks : \E ch \in 1..at_self.head_dim :
          at_q_ch_bias[b][c][ch] # Zero

(***************************************************************************)
(* Claims about saturation (checked under SpecLmDtype: exact and bfloat16). *)
(***************************************************************************)
\* the scale the LM head gives sym_quant for chunk c of band j (0-based)
LmScaleOf(j, c) ==
    ToDtype(RDiv(lm_thresholds[j + 1][c], RInt(Pow2(LmQBits - 1) - 1)), lm_dtype_bits)

\* entry x of a channel of band j of chunk c: within the threshold, rounded
\* into the signed range without the clamp, reconstructed as y within half a step
LmEntryUnsaturated(j, c, x, y) ==
    LET q_max == Pow2(LmQBits - 1) - 1
        q == RoundHalfEven(RDiv(x, LmScaleOf(j, c)))
    IN  /\ RLe(RAbs(x), lm_thresholds[j + 1][c])
        /\ -q_max <= q
        /\ q <= q_max
        /\ RLe(RAbs(RSub(x, y)), RDiv(lm_thresholds[j + 1][c], RInt(2 * q_max)))

LmEntryWithinStep(j, c, x, y) ==
    LET q_max == Pow2(LmQBits - 1) - 1
        q == RoundHalfEven(RDiv(x, LmScaleOf(j, c)))
        err == RAbs(RSub(x, y))
    IN  /\ RLe(RAbs(x), lm_thresholds[j + 1][c])
        /\ -q_max <= q
        /\ q <= q_max
        /\ RLt(err, RDiv(lm_thresholds[j + 1][c], RInt(q_max)))
        /\ (lm_dtype_bits = 0) =>
               RLe(err, RDiv(lm_thresholds[j + 1][c], RInt(2 * q_max)))

C25_Original ==
    (bp_pc = "masked") =>
        IF RLe(bp_in.cmax, bp_in.tmax)
            THEN /\ bp_bands.closed_top = bp_bands.inclusive
                 /\ Cardinality(bp_bands.closed_top) = 1
            ELSE /\ bp_bands.closed_top = {bp_in.decomp_factor - 1}
                 /\ bp_bands.inclusive = {}

\* C25, amended: for every D >= 1 and every channel with cmax <= tmax both
\* policies assign the channel to the same single band.  For D >= 2 they
\* differ exactly for the channels with cmax > tmax, which the closed-top
\* policy puts in the last band and the inclusive policy in no band; for
\* D = 1 the only band is cmax <= threshold[0] under both policies, and a
\* channel with cmax > tmax is in no band under either.
C25_PoliciesAgree ==
    (bp_pc = "masked") =>
        IF RLe(bp_in.cmax, bp_in.tmax)
            THEN /\ bp_bands.closed_top = bp_bands.inclusive
                 /\ Cardinality(bp_bands.closed_top) = 1
            ELSE /\ bp_bands.inclusive = {}
                 /\ bp_bands.closed_top
                        = IF bp_in.decomp_factor >= 2
                              THEN {bp_in.decomp_factor - 1} ELSE {}

\* a channel above the chunk's maximum with a single band, and masks computed
C25_Witness ==
    /\ bp_pc = "masked"
    /\ bp_in.decomp_factor = 1
    /\ RLt(bp_in.tmax, bp_in.cmax)
    /\ bp_bands.closed_top = {}

(***************************************************************************)
(* Claims about the coverage assertions and the batch (SpecAttn).           *)
(***************************************************************************)
\* C26: in the quantized attention path the band masks range over the
\* flattened batch * head dimension, so with statistics computed on the fly
\* the counts sum to bsz * num_heads * chunks * head_dim (query path) and
\* bsz * num_heads * chunks * src_len (score path); the assertions compare with
\* num_heads * head_dim * chunks and num_heads * src_len * chunks, so they pass
\* when bsz = 1 and fail for every bsz >= 2.
C26_BatchCoverage ==
    /\ (at_pc = "bands" /\ at_i = at_self.decomp_factor) =>
           SeqSumInt(at_count)
               = at_in.bsz * at_self.num_heads * at_chunks * at_self.head_dim
    /\ (at_pc = "s_bands" /\ at_i = at_self.decomp_factor) =>
           SeqSumInt(at_count) = at_in.bsz * at_self.num_heads * at_chunks * AtSrcLen
    /\ (at_pc = "coverage_assert") => (at_in.bsz >= 2)
    /\ (at_pc \in {"covered", "s_covered"}) => (at_in.bsz = 1)

\* the query path's assertion has failed on a batch of two
C26_Witness ==
    /\ at_pc = "coverage_assert"
    /\ at_in.bsz = 2
    /\ at_s_tmax = <<>>
    /\ SeqSumInt(at_count) = 2 * at_self.num_heads * at_chunks * at_self.head_dim

(***************************************************************************)
(* Claims about zero padding (SpecDecomp).                                  *)
(***************************************************************************)
\* the real rows of every chunk of t, without any padding
RealChunks(t, chunk_size) ==
    [c \in 1..CeilDiv(Len(t), chunk_size) |->
        SubSeq(t, (c - 1) * chunk_size + 1,
               IF c * chunk_size <= Len(t) THEN c * chunk_size ELSE Len(t))]

\* the LM head's statistics are those of the real rows
LmStatsOfRealRows ==
    (lm_tmax # <<>> /\ Len(lm_hidden_states) >= 1) =>
        LET real == RealChunks(lm_hidden_states, lm_chunk_size)
        IN  /\ lm_tmax = ChunkTensorMax(real)
            /\ lm_cmax = ChunkChannelMax(real, LmHiddenDim)
            /\ \A i \in 0..(lm_decomp_factor - 1) :
                   BandMask("closed_top", i, lm_decomp_factor, lm_cmax, lm_thresholds)
                       = BandMask("closed_top", i, lm_decomp_factor,
                                  ChunkChannelMax(real, LmHiddenDim),
                                  Thresholds(ChunkTensorMax(real), lm_decomp_factor))

\* the score path's statistics are those of the real rows
AtScoreStatsOfRealRows ==
    (at_s_tmax # <<>> /\ at_s_cmax # <<>> /\ at_in.q_len >= 1) =>
        \A b \in 1..AtBH :
            LET real == RealChunks(at_attn_weights[b], at_self.chunk_size)
            IN  /\ at_s_tmax[b] = ChunkTensorMax(real)
                /\ at_s_cmax[b] = ChunkChannelMax(real, AtSrcLen)

\* C27: zero-padding rows never change the statistics of a path without bias
\* removal: with rows >= 1 the per-chunk maximum magnitude and every
\* per-channel maximum magnitude of the padded last chunk equal those of its
\* real rows, so every channel's band is independent of the padding.
C27_PaddingNeutral ==
    LmStatsOfRealRows /\ AtScoreStatsOfRealRows

\* the LM head has computed statistics of a padded last chunk with a non-zero real row
C27_Witness ==
    /\ lm_pc = "bands"
    /\ lm_pad_num > 0
    /\ lm_chunks >= 1
    /\ lm_tmax[lm_chunks] # Zero

(***************************************************************************)
(* Claims about the unquantized attention path (SpecAttnCal).               *)
(***************************************************************************)
\* the *_cal fields of a module
AtCalStored(self) ==
    [name \in {"k_ch_bias_cal", "q_ch_bias_cal", "q_tmax_cal", "s_tmax_cal", "q_cmax_cal",
               "s_cmax_cal", "k_scale_cal", "v_scale_cal"} |-> self[name]]

\* the locals of the quantized path have not been touched
AtQuantLocalsUntouched ==
    /\ at_K = <<>>
    /\ at_V = <<>>
    /\ at_hidden_chunks = <<>>
    /\ at_result = <<>>
    /\ at_count = <<>>
    /\ at_k_scale = <<>>
    /\ at_v_scale = <<>>

\* one step of a forward pass with quant_mha = False
C28_PlainStep ==
    (at_self.quant_mha = FALSE) =>
        /\ at_self'.quant_mha = FALSE
        /\ AtCalibration(at_self') = AtCalibration(at_self)
        /\ AtCalStored(at_self') = AtCalStored(at_self)
        /\ AtQuantLocalsUntouched'
        /\ (at_pc' = "scored") =>
               at_attn_weights' = [b \in 1..AtBH |-> [r \in 1..at_in.q_len |->
                   [s \in 1..AtSrcLen |->
                       Dot(at_in.query_states[b][r], at_in.key_states[b][s])]]]
        /\ (at_pc' = "done") =>
               at_attn_output' = [b \in 1..AtBH |->
                   MatMul(at_attn_weights[b], at_in.value_states[b], at_self.head_dim)]

\* any step that writes a *_cal field is a step of the quant_mha = True path
C28_CalWrittenStep ==
    (AtCalStored(at_self') # AtCalStored(at_self)) => (at_self.quant_mha = TRUE)

\* C28: with quant_mha = False the attention forward pass computes unquantized
\* attention and leaves every calibration field and every *_cal field of the
\* module unchanged; *_cal fields are written only on the quant_mha = True path.
C28_PlainFrame ==
    [][C28_PlainStep /\ C28_CalWrittenStep]_vars

\* a second unquantized call has returned on a module with supplied calibration
C28_Witness ==
    /\ at_pc = "done"
    /\ at_self.quant_mha = FALSE
    /\ at_self.q_tmax # None
    /\ at_self.k_ch_bias # None
    /\ Len(at_calls) >= 1
    /\ at_attn_output # <<>>
    /\ \A name \in DOMAIN AtCalStored(at_self) : at_self[name] = None

(***************************************************************************)
(* The driver script accuracy_qserve.py: a loop over the configurations,    *)
(* each command given to os.system, which blocks until the command returns  *)
(* and whose return value the script discards.                              *)
(***************************************************************************)
MODEL_LIST ==
    <<"llama2", "llama2", "llama2", "opt", "opt", "opt", "mistral", "mixtral">>

SIZE_LIST ==
    <<"7b", "13b", "70b", "6.7b", "13b", "30b", "7b", "8x7b">>

N_GPUS ==
    <<1, 1, 4, 1, 1, 2, 1, 4>>

EVAL_WORKLOAD_LIST ==
    <<"wikitext", "piqa", "winogrande", "hellaswag">>

BATCH_SIZE ==
    4

NEED_SCALING ==
    TRUE

\* zip(MODEL_LIST, SIZE_LIST, N_GPUS) stops with the shortest list
DrConfigs ==
    LET n == IF Len(MODEL_LIST) <= Len(SIZE_LIST) THEN Len(MODEL_LIST) ELSE Len(SIZE_LIST)
    IN  IF n <= Len(N_GPUS) THEN n ELSE Len(N_GPUS)

\* what os.system may return: the command's exit status
DrExitStatuses ==
    {0, 1}

\* profiling_cmd of the configuration idx (0-based)
ProfilingCmd(idx) ==
    [ program |-> "qserve_preprocess_activation.py",
      gpus |-> N_GPUS[idx + 1], m |-> MODEL_LIST[idx + 1], s |-> SIZE_LIST[idx + 1],
      t |-> "wikitext", b |-> 0 ]

\* wikitext_cmd of the configuration idx
WikitextCmd(idx) ==
    [ program |-> "eval_perplexity.py",
      gpus |-> N_GPUS[idx + 1], m |-> MODEL_LIST[idx + 1], s |-> SIZE_LIST[idx + 1],
      t |-> "wikitext", b |-> 0 ]

\* workload_cmd of the configuration idx and the workload
WorkloadCmd(idx, workload) ==
    [ program |-> "eval_workload.py",
      gpus |-> N_GPUS[idx + 1], m |-> MODEL_LIST[idx + 1], s |-> SIZE_LIST[idx + 1],
      t |-> workload, b |-> BATCH_SIZE ]

\* a faulty script that gives up after a command that failed
DrAfterSystemChecked(status, next) ==
    IF status = 0 THEN next ELSE "end"

\* where the script goes on after os.system has returned: the value is discarded
DrAfterSystem(status, next) ==
    next

InitDriver ==
    /\ PrimIdle
    /\ LmIdle
    /\ AtIdle
    /\ divisors = {}
    /\ LmAgainIdle
    /\ AtLocalIdle
    /\ AtCallIdle
    /\ RkIdle
    /\ KvIdle
    /\ QbIdle
    /\ RoIdle
    /\ BpIdle
    /\ dr_pc = "loop"
    /\ dr_idx = 0
    /\ dr_w = 0
    /\ dr_cmds = <<>>
    /\ dr_status = 0
    /\ dr_need_scaling = NEED_SCALING

\* the next configuration of the for loop; os.system(profiling_cmd) is called
\* when NEED_SCALING
DrConfig ==
    /\ dr_pc = "loop"
    /\ dr_idx < DrConfigs
    /\ IF dr_need_scaling
          THEN /\ dr_cmds' = Append(dr_cmds, ProfilingCmd(dr_idx))
               /\ dr_pc' = "profiling"
          ELSE /\ dr_pc' = "workloads"
               /\ UNCHANGED dr_cmds
    /\ dr_w' = 0
    /\ UNCHANGED <<dr_idx, dr_status, dr_need_scaling>>
    /\ UNCHANGED <<p_vars, lm_vars, at_vars, divisors, lm_again_vars, at_local_vars,
                   at_call_vars, rk_vars, kv_vars, qb_vars, ro_vars, bp_vars>>

\* os.system(profiling_cmd) returns
DrProfilingReturn ==
    /\ dr_pc = "profiling"
    /\ \E status \in DrExitStatuses :
           /\ dr_status' = status
           /\ dr_pc' = DrAfterSystem(status, "workloads")
    /\ UNCHANGED <<dr_idx, dr_w, dr_cmds, dr_need_scaling>>
    /\ UNCHANGED <<p_vars, lm_vars, at_vars, divisors, lm_again_vars, at_local_vars,
                   at_call_vars, rk_vars, kv_vars, qb_vars, ro_vars, bp_vars>>

\* workload == "wikitext": os.system(wikitext_cmd) is called
DrWikitext ==
    /\ dr_pc = "workloads"
    /\ dr_w < Len(EVAL_WORKLOAD_LIST)
    /\ EVAL_WORKLOAD_LIST[dr_w + 1] = "wikitext"
    /\ dr_cmds' = Append(dr_cmds, WikitextCmd(dr_idx))
    /\ dr_pc' = "evaluating"
    /\ UNCHANGED <<dr_idx, dr_w, dr_status, dr_need_scaling>>
    /\ UNCHANGED <<p_vars, lm_vars, at_vars, divisors, lm_again_vars, at_local_vars,
                   at_call_vars, rk_vars, kv_vars, qb_vars, ro_vars, bp_vars>>

\* another workload and model == "llama2": os.system(workload_cmd) is called
DrWorkload ==
    /\ dr_pc = "workloads"
    /\ dr_w < Len(EVAL_WORKLOAD_LIST)
    /\ EVAL_WORKLOAD_LIST[dr_w + 1] # "wikitext"
    /\ MODEL_LIST[dr_idx + 1] = "llama2"
    /\ dr_cmds' = Append(dr_cmds, WorkloadCmd(dr_idx, EVAL_WORKLOAD_LIST[dr_w + 1]))
    /\ dr_pc' = "evaluating"
    /\ UNCHANGED <<dr_idx, dr_w, dr_status, dr_need_scaling>>
    /\ UNCHANGED <<p_vars, lm_vars, at_vars, divisors, lm_again_vars, at_local_vars,
                   at_call_vars, rk_vars, kv_vars, qb_vars, ro_vars, bp_vars>>

\* another workload and another model: neither branch is taken
DrSkip ==
    /\ dr_pc = "workloads"
    /\ dr_w < Len(EVAL_WORKLOAD_LIST)
    /\ EVAL_WORKLOAD_LIST[dr_w + 1] # "wikitext"
    /\ MODEL_LIST[dr_idx + 1] # "llama2"
    /\ dr_w' = dr_w + 1
    /\ UNCHANGED <<dr_pc, dr_idx, dr_cmds, dr_status, dr_need_scaling>>
    /\ UNCHANGED <<p_vars, lm_vars, at_vars, divisors, lm_again_vars, at_local_vars,
                   at_call_vars, rk_vars, kv_vars, qb_vars, ro_vars, bp_vars>>

\* os.system(wikitext_cmd) or os.system(workload_cmd) returns
DrEvalReturn ==
    /\ dr_pc = "evaluating"
    /\ \E status \in DrExitStatuses :
           /\ dr_status' = status
           /\ dr_pc' = DrAfterSystem(status, "workloads")
    /\ dr_w' = dr_w + 1
    /\ UNCHANGED <<dr_idx, dr_cmds, dr_need_scaling>>
    /\ UNCHANGED <<p_vars, lm_vars, at_vars, divisors, lm_again_vars, at_local_vars,
                   at_call_vars, rk_vars, kv_vars, qb_vars, ro_vars, bp_vars>>

\* EVAL_WORKLOAD_LIST is exhausted: the outer loop goes on
DrWorkloadsDone ==
    /\ dr_pc = "workloads"
    /\ dr_w = Len(EVAL_WORKLOAD_LIST)
    /\ dr_idx' = dr_idx + 1
    /\ dr_pc' = "loop"
    /\ UNCHANGED <<dr_w, dr_cmds, dr_status, dr_need_scaling>>
    /\ UNCHANGED <<p_vars, lm_vars, at_vars, divisors, lm_again_vars, at_local_vars,
                   at_call_vars, rk_vars, kv_vars, qb_vars, ro_vars, bp_vars>>

\* the configurations are exhausted: the script ends
DrEnd ==
    /\ dr_pc = "loop"
    /\ dr_idx = DrConfigs
    /\ dr_pc' = "end"
    /\ UNCHANGED <<dr_idx, dr_w, dr_cmds, dr_status, dr_need_scaling>>
    /\ UNCHANGED <<p_vars, lm_vars, at_vars, divisors, lm_again_vars, at_local_vars,
                   at_call_vars, rk_vars, kv_vars, qb_vars, ro_vars, bp_vars>>

NextDriver ==
    \/ DrConfig
    \/ DrProfilingReturn
    \/ DrWikitext
    \/ DrWorkload
    \/ DrSkip
    \/ DrEvalReturn
    \/ DrWorkloadsDone
    \/ DrEnd

SpecDriver ==
    InitDriver /\ [][NextDriver]_vars

(***************************************************************************)
(* Claims about the driver script (SpecDriver).                             *)
(***************************************************************************)
\* the commands of one configuration in the order stated: profiling, wikitext,
\* then piqa, winogrande and hellaswag for llama2 only
DrCommandsOf(k) ==
    LET eval(program, task, b) ==
            [ program |-> program, gpus |-> N_GPUS[k], m |-> MODEL_LIST[k],
              s |-> SIZE_LIST[k], t |-> task, b |-> b ]
    IN  (IF NEED_SCALING
            THEN << eval("qserve_preprocess_activation.py", "wikitext", 0) >> ELSE <<>>)
        \o << eval("eval_perplexity.py", "wikitext", 0) >>
        \o (IF MODEL_LIST[k] = "llama2"
               THEN << eval("eval_workload.py", "piqa", BATCH_SIZE),
                       eval("eval_workload.py", "winogrande", BATCH_SIZE),
                       eval("eval_workload.py", "hellaswag", BATCH_SIZE) >>
               ELSE <<>>)

RECURSIVE DrCommandsUpTo(_)
\* the commands of the first k configurations
DrCommandsUpTo(k) ==
    IF k = 0 THEN <<>> ELSE DrCommandsUpTo(k - 1) \o DrCommandsOf(k)

\* the configuration (1-based) the k-th command of the log belongs to
DrConfigOf(k) ==
    CHOOSE c \in 1..DrConfigs :
        Len(DrCommandsUpTo(c - 1)) < k /\ k <= Len(DrCommandsUpTo(c))

\* a command is running in os.system
DrRunning ==
    dr_pc \in {"profiling", "evaluating"}

\* C29: the driver script issues its commands strictly sequentially in a fixed
\* order: for each (model, size, gpu count) triple in list order the profiling
\* command (when NEED_SCALING), then the wikitext evaluation, then piqa,
\* winogrande and hellaswag only for llama2; no evaluation of a configuration
\* starts before its profiling command has returned, and a non-zero exit status
\* does not stop or alter the sequence.
C29_FixedSequence ==
    LET all == DrCommandsUpTo(DrConfigs)
    IN  /\ Len(dr_cmds) <= Len(all)
        /\ dr_cmds = SubSeq(all, 1, Len(dr_cmds))
        /\ (dr_pc = "end") => (dr_cmds = all)
        /\ (dr_pc = "profiling") =>
               /\ dr_cmds # <<>>
               /\ dr_cmds[Len(dr_cmds)].program = "qserve_preprocess_activation.py"
        /\ (dr_pc = "evaluating") =>
               /\ dr_cmds # <<>>
               /\ dr_cmds[Len(dr_cmds)].program # "qserve_preprocess_activation.py"
        /\ \A k \in DOMAIN dr_cmds :
               (NEED_SCALING /\ dr_cmds[k].program # "qserve_preprocess_activation.py") =>
                   \E j \in 1..(k - 1) :
                       /\ dr_cmds[j].program = "qserve_preprocess_activation.py"
                       /\ DrConfigOf(j) = DrConfigOf(k)
                       /\ dr_cmds[j].m = dr_cmds[k].m
                       /\ dr_cmds[j].s = dr_cmds[k].s
        /\ (dr_pc # "end") => ENABLED NextDriver

\* the profiling of an opt configuration has failed and its wikitext evaluation runs
C29_Witness ==
    /\ dr_pc = "evaluating"
    /\ dr_status # 0
    /\ dr_cmds[Len(dr_cmds)].program = "eval_perplexity.py"
    /\ dr_cmds[Len(dr_cmds)].m = "opt"
    /\ dr_cmds[Len(dr_cmds) - 1].program = "qserve_preprocess_activation.py"

(***************************************************************************)
(* A sequence of forward calls on one rotary embedding.                     *)
(***************************************************************************)
\* the largest seq_len a call asks for
MaxSeqLen ==
    4

\* the number of forward calls
MaxRotaryCalls ==
    3

\* cos_cached[:, :, :seq_len, ...] and sin_cached[:, :, :seq_len, ...]: a slice
\* stops at the end of the table
RotarySlice(rot, seq_len) ==
    SubSeq(rot.cos_sin_cached, 1,
           IF seq_len < Len(rot.cos_sin_cached) THEN seq_len ELSE Len(rot.cos_sin_cached))

InitRotary ==
    /\ PrimIdle
    /\ LmIdle
    /\ AtIdle
    /\ divisors = {}
    /\ LmAgainIdle
    /\ AtLocalIdle
    /\ AtCallIdle
    /\ RkIdle
    /\ KvIdle
    /\ QbIdle
    /\ DrIdle
    /\ BpIdle
    /\ ro_pc = "ready"
    /\ ro_self \in { RotaryInit(type) : type \in AtCalRopes }
    /\ ro_seq_lens = <<>>
    /\ ro_out = <<>>
    /\ ro_rebuilt = 0

\* forward(x, seq_len): the cache is rebuilt when seq_len exceeds it, and the
\* first seq_len positions of the tables are returned
RoForward ==
    /\ ro_pc = "ready"
    /\ Len(ro_seq_lens) < MaxRotaryCalls
    /\ \E seq_len \in 0..MaxSeqLen :
           LET rot == RotaryForward(ro_self, seq_len)
           IN  /\ ro_self' = rot
               /\ ro_seq_lens' = Append(ro_seq_lens, seq_len)
               /\ ro_out' = RotarySlice(rot, seq_len)
               /\ ro_rebuilt' = IF rot = ro_self THEN ro_rebuilt ELSE ro_rebuilt + 1
    /\ UNCHANGED ro_pc
    /\ UNCHANGED <<p_vars, lm_vars, at_vars, divisors, lm_again_vars, at_local_vars,
                   at_call_vars, rk_vars, kv_vars, qb_vars, dr_vars, bp_vars>>

NextRotary ==
    RoForward

SpecRotary ==
    InitRotary /\ [][NextRotary]_vars

(***************************************************************************)
(* Claims about the rotary cache (SpecRotary).                              *)
(***************************************************************************)
\* the largest of max_position_embeddings and the seq_len of the first k calls
RoLargestRequest(k) ==
    LET asked == {MaxPositionEmbeddings} \cup {ro_seq_lens[j] : j \in 1..k}
    IN  CHOOSE m \in asked : \A n \in asked : n <= m

\* the calls that asked for more positions than any call before and than
\* max_position_embeddings
RoGrowingCalls ==
    {k \in DOMAIN ro_seq_lens : ro_seq_lens[k] > RoLargestRequest(k - 1)}

\* C30: the rotary cos/sin cache only grows: after any sequence of forward
\* calls max_seq_len_cached is the maximum of max_position_embeddings and every
\* seq_len requested so far, the cache is rebuilt only by a call whose seq_len
\* exceeds the current max_seq_len_cached, and every call returns tables with
\* exactly seq_len positions.
C30_CacheGrows ==
    (ro_pc = "ready") =>
        /\ ro_self.max_seq_len_cached = RoLargestRequest(Len(ro_seq_lens))
        /\ Len(ro_self.cos_sin_cached) = ro_self.max_seq_len_cached
        /\ ro_rebuilt = Cardinality(RoGrowingCalls)
        /\ (ro_seq_lens # <<>>) =>
               /\ Len(ro_out) = ro_seq_lens[Len(ro_seq_lens)]
               /\ \A p \in DOMAIN ro_out : ro_out[p] = ro_self.cos_sin_cached[p]

\* the cache has grown twice and a later call asked for fewer positions
C30_Witness ==
    /\ ro_pc = "ready"
    /\ ro_seq_lens = <<3, 4, 1>>
    /\ ro_rebuilt = 2
    /\ ro_self.max_seq_len_cached = 4
    /\ Len(ro_out) = 1

====
